---- MODULE Spec2Model ----
(***************************************************************************)
(* Model of services of the supertutors backend (backend/app/services):    *)
(*   socratic_guard.py    the rule-based and LLM-based response validator  *)
(*                        and the generate -> validate -> retry ->         *)
(*                        fallback loop of generate_validated_response     *)
(*   math_detector.py     MathDetector.detect                              *)
(*   sympy_service.py     the operations of SymPyService                   *)
(*   answer_validator.py  AnswerValidator.validate_answer                  *)
(*   answer_checker.py    AnswerChecker                                    *)
(* and of the handler of message:send (backend/app/routes/socket_events.py).*)
(* Each has its own specification; the variables of the others stay idle.  *)
(*                                                                         *)
(* Texts are sequences of phrases; a phrase is a literal piece of text.    *)
(* The confidences of the Socratic guard are Python floats in the source;  *)
(* here they are integers in thousandths (0.9 is 900), so that the average *)
(* of two of them is exact.                                                *)
(***************************************************************************)
EXTENDS Integers, Sequences, FiniteSets, TLC

(***************************************************************************)
(* Bounds of the model.                                                    *)
(***************************************************************************)
\* longest tutor response handed to validate_response directly, in phrases
MaxPhrases == 3
\* longest response the text-generation capability produces, in phrases
MaxGenPhrases == 2
\* largest value of the constructor parameter max_retries
MaxRetries == 3
\* longest student message handed to MathDetector.detect, in clauses
MaxClauses == 2
\* longest list of roots the CAS returns from solve
MaxRoots == 2
\* longest conversation history handed to the answer checker, in lines
MaxLines == 3
\* longest conversation history of a message in the message flow, in lines
MaxFlowLines == 1
\* longest list of expressions in a math context
MaxExpressions == 1
\* largest value of consecutive_correct_count
MaxStreak == 3
\* number of message:send events
MaxSends == 2

(***************************************************************************)
(* Pattern tables, socratic_guard.py lines 13-62.                          *)
(***************************************************************************)
DIRECT_ANSWER_PATTERNS ==
    << "\\bthe answer is\\s+[^\\s]", "\\bthe solution is\\s+\\d+",
       "\\bthe result is\\s+\\d+", "\\bstep\\s+\\d+:",
       "\\bfirst,\\s+\\w+\\.\\s+then,", "\\buse\\s+the\\s+formula",
       "\\bapply\\s+the\\s+formula", "\\bsubstitute\\s+\\d+",
       "\\bplug\\s+in\\s+\\d+" >>

GIVING_ANSWER_PATTERNS ==
    << "\\bx\\s*=\\s*\\d+", "\\by\\s*=\\s*\\d+", "\\bz\\s*=\\s*\\d+",
       "\\bequals\\s*\\d+", "\\b=\\s*\\d+\\b" >>

ACKNOWLEDGMENT_PHRASES ==
    << "\\bcorrect\\b", "\\bexactly\\b", "\\bperfect\\b", "\\bexcellent\\b",
       "\\bgreat job\\b", "\\bwell done\\b", "\\byou\\'?ve got it\\b",
       "\\byou\\'?ve solved it\\b", "\\bthat\\'?s right\\b", "\\byes\\b" >>

DIRECT_ANSWER_KEYWORDS ==
    << "answer", "solution", "result", "equals", "formula",
       "calculate", "substitute", "plug in", "step 1", "step 2" >>

FALLBACK_QUESTIONS ==
    << << "What have you tried so far to solve this problem?" >>,
       << "What do you think might be the first step?" >>,
       << "Can you tell me what you understand about this problem?" >>,
       << "What strategies do you know that might help here?" >>,
       << "What part of this problem seems most challenging to you?" >> >>

(***************************************************************************)
(* The phrases a tutor response is made of in this model.                  *)
(***************************************************************************)
Vocabulary ==
    { "The answer is 5.", "x = 5", "Exactly!",
      "Calculate the result with the formula.",
      "Is that your answer or solution?",
      "What is the result?", "What operation comes next?" }

\* all texts of at most n phrases
Texts(n) == UNION { [1..k -> Vocabulary] : k \in 0..n }

Range(s) == { s[i] : i \in DOMAIN s }

\* str.lower(), phrase by phrase
LowerPhrase(p) ==
    CASE p = "The answer is 5." -> "the answer is 5."
      [] p = "Exactly!" -> "exactly!"
      [] p = "Calculate the result with the formula."
            -> "calculate the result with the formula."
      [] p = "Is that your answer or solution?"
            -> "is that your answer or solution?"
      [] p = "What is the result?" -> "what is the result?"
      [] p = "What operation comes next?" -> "what operation comes next?"
      [] p = "What have you tried so far to solve this problem?"
            -> "what have you tried so far to solve this problem?"
      [] p = "What do you think might be the first step?"
            -> "what do you think might be the first step?"
      [] p = "Can you tell me what you understand about this problem?"
            -> "can you tell me what you understand about this problem?"
      [] p = "What strategies do you know that might help here?"
            -> "what strategies do you know that might help here?"
      [] p = "What part of this problem seems most challenging to you?"
            -> "what part of this problem seems most challenging to you?"
      [] OTHER -> p

lower(text) == [i \in DOMAIN text |-> LowerPhrase(text[i])]

\* the regular expressions of the three pattern tables that match inside a
\* lower-case phrase (no expression of the tables matches across two phrases)
PhraseMatches(p) ==
    CASE p = "the answer is 5." -> { "\\bthe answer is\\s+[^\\s]" }
      [] p = "x = 5" -> { "\\bx\\s*=\\s*\\d+" }
      [] p = "exactly!" -> { "\\bexactly\\b" }
      [] OTHER -> {}

\* the keywords of DIRECT_ANSWER_KEYWORDS that are substrings of a phrase;
\* the test is case sensitive, as Python's `in` is
PhraseKeywords(p) ==
    CASE p = "the answer is 5." -> { "answer" }
      [] p = "calculate the result with the formula."
            -> { "result", "formula", "calculate" }
      [] p = "is that your answer or solution?" -> { "answer", "solution" }
      [] p = "what is the result?" -> { "result" }
      [] p = "Calculate the result with the formula."
            -> { "result", "formula" }
      [] p = "Is that your answer or solution?" -> { "answer", "solution" }
      [] p = "What is the result?" -> { "result" }
      [] p = "The answer is 5." -> { "answer" }
      [] OTHER -> {}

\* re.search(pattern, text)
re_search(pattern, text) == \E i \in DOMAIN text : pattern \in PhraseMatches(text[i])

\* keyword in text
contains(keyword, text) == \E i \in DOMAIN text : keyword \in PhraseKeywords(text[i])

\* the first pattern of a table that matches the text, 0 when none does
FirstMatch(patterns, text) ==
    LET hits == { i \in DOMAIN patterns : re_search(patterns[i], text) }
    IN IF hits = {} THEN 0 ELSE CHOOSE i \in hits : \A j \in hits : i <= j

(***************************************************************************)
(* SocraticGuard._rule_based_validation                                    *)
(***************************************************************************)
\* the giving-the-answer patterns tested whether or not the response acknowledges
_rule_based_validation_giving_despite_ack(response) ==
    LET response_lower == lower(response)
        has_acknowledgment ==
            \E i \in DOMAIN ACKNOWLEDGMENT_PHRASES :
                re_search(ACKNOWLEDGMENT_PHRASES[i], response_lower)
        direct == FirstMatch(DIRECT_ANSWER_PATTERNS, response_lower)
        giving == FirstMatch(GIVING_ANSWER_PATTERNS, response_lower)
        keyword_count ==
            Cardinality({ i \in DOMAIN DIRECT_ANSWER_KEYWORDS :
                            contains(DIRECT_ANSWER_KEYWORDS[i], response_lower) })
    IN  IF direct # 0
        THEN [is_valid |-> FALSE,
              reason |-> << "Matched pattern: ", DIRECT_ANSWER_PATTERNS[direct] >>,
              confidence |-> 900]
        ELSE IF giving # 0
        THEN [is_valid |-> FALSE,
              reason |-> << "Tutor is giving answer: ", GIVING_ANSWER_PATTERNS[giving] >>,
              confidence |-> 900]
        ELSE IF has_acknowledgment
        THEN IF keyword_count >= 5
             THEN [is_valid |-> FALSE,
                   reason |-> << "Too many direct answer keywords even with acknowledgment (",
                                 ToString(keyword_count), ")" >>,
                   confidence |-> 700]
             ELSE [is_valid |-> TRUE,
                   reason |-> << "Acknowledgment response with acceptable keywords" >>,
                   confidence |-> 800]
        ELSE IF keyword_count >= 3
        THEN [is_valid |-> FALSE,
              reason |-> << "Too many direct answer keywords (",
                            ToString(keyword_count), ")" >>,
              confidence |-> 800]
        ELSE IF keyword_count >= 2
        THEN [is_valid |-> TRUE,
              reason |-> << "Some keywords but likely acceptable (",
                            ToString(keyword_count), ")" >>,
              confidence |-> 500]
        ELSE [is_valid |-> TRUE,
              reason |-> << "No obvious direct answer patterns detected" >>,
              confidence |-> 700]

\* one confidence for every plain accept
_rule_based_validation_flat_accept(response) ==
    LET response_lower == lower(response)
        has_acknowledgment ==
            \E i \in DOMAIN ACKNOWLEDGMENT_PHRASES :
                re_search(ACKNOWLEDGMENT_PHRASES[i], response_lower)
        direct == FirstMatch(DIRECT_ANSWER_PATTERNS, response_lower)
        giving == FirstMatch(GIVING_ANSWER_PATTERNS, response_lower)
        keyword_count ==
            Cardinality({ i \in DOMAIN DIRECT_ANSWER_KEYWORDS :
                            contains(DIRECT_ANSWER_KEYWORDS[i], response_lower) })
    IN  IF direct # 0
        THEN [is_valid |-> FALSE,
              reason |-> << "Matched pattern: ", DIRECT_ANSWER_PATTERNS[direct] >>,
              confidence |-> 900]
        ELSE IF ~has_acknowledgment /\ giving # 0
        THEN [is_valid |-> FALSE,
              reason |-> << "Tutor is giving answer: ", GIVING_ANSWER_PATTERNS[giving] >>,
              confidence |-> 900]
        ELSE IF has_acknowledgment
        THEN IF keyword_count >= 5
             THEN [is_valid |-> FALSE,
                   reason |-> << "Too many direct answer keywords even with acknowledgment (",
                                 ToString(keyword_count), ")" >>,
                   confidence |-> 700]
             ELSE [is_valid |-> TRUE,
                   reason |-> << "Acknowledgment response with acceptable keywords" >>,
                   confidence |-> 700]
        ELSE IF keyword_count >= 3
        THEN [is_valid |-> FALSE,
              reason |-> << "Too many direct answer keywords (",
                            ToString(keyword_count), ")" >>,
              confidence |-> 800]
        ELSE IF keyword_count >= 2
        THEN [is_valid |-> TRUE,
              reason |-> << "Some keywords but likely acceptable (",
                            ToString(keyword_count), ")" >>,
              confidence |-> 500]
        ELSE [is_valid |-> TRUE,
              reason |-> << "No obvious direct answer patterns detected" >>,
              confidence |-> 700]

_rule_based_validation(response) ==
    LET response_lower == lower(response)
        has_acknowledgment ==
            \E i \in DOMAIN ACKNOWLEDGMENT_PHRASES :
                re_search(ACKNOWLEDGMENT_PHRASES[i], response_lower)
        direct == FirstMatch(DIRECT_ANSWER_PATTERNS, response_lower)
        giving == FirstMatch(GIVING_ANSWER_PATTERNS, response_lower)
        keyword_count ==
            Cardinality({ i \in DOMAIN DIRECT_ANSWER_KEYWORDS :
                            contains(DIRECT_ANSWER_KEYWORDS[i], response_lower) })
    IN  IF direct # 0
        THEN [is_valid |-> FALSE,
              reason |-> << "Matched pattern: ", DIRECT_ANSWER_PATTERNS[direct] >>,
              confidence |-> 900]
        ELSE IF ~has_acknowledgment /\ giving # 0
        THEN [is_valid |-> FALSE,
              reason |-> << "Tutor is giving answer: ", GIVING_ANSWER_PATTERNS[giving] >>,
              confidence |-> 900]
        ELSE IF has_acknowledgment
        THEN IF keyword_count >= 5
             THEN [is_valid |-> FALSE,
                   reason |-> << "Too many direct answer keywords even with acknowledgment (",
                                 ToString(keyword_count), ")" >>,
                   confidence |-> 700]
             ELSE [is_valid |-> TRUE,
                   reason |-> << "Acknowledgment response with acceptable keywords" >>,
                   confidence |-> 800]
        ELSE IF keyword_count >= 3
        THEN [is_valid |-> FALSE,
              reason |-> << "Too many direct answer keywords (",
                            ToString(keyword_count), ")" >>,
              confidence |-> 800]
        ELSE IF keyword_count >= 2
        THEN [is_valid |-> TRUE,
              reason |-> << "Some keywords but likely acceptable (",
                            ToString(keyword_count), ")" >>,
              confidence |-> 500]
        ELSE [is_valid |-> TRUE,
              reason |-> << "No obvious direct answer patterns detected" >>,
              confidence |-> 700]

(***************************************************************************)
(* The second-opinion judge.  What the completion call of _llm_validation  *)
(* does is an input of the model:                                          *)
(*   "error"     the call raises (timeout, network, rate limit)            *)
(*   "malformed" the text is not JSON (json.JSONDecodeError)               *)
(*   "notobject" the text is JSON but not an object, so .get raises        *)
(*   "json"      the text is a JSON object; each of its three keys is      *)
(*               present or absent, and confidence may be a non-number     *)
(***************************************************************************)
JsonConfidences ==
    { [kind |-> "num", val |-> v] : v \in { 0, 300, 700, 720, 900, 1000, 1500 } }
    \cup { [kind |-> "missing", val |-> 0], [kind |-> "nonnum", val |-> 0] }

JudgeOutcomes ==
    { [kind |-> "json", is_direct_answer |-> d, reason |-> r, confidence |-> c] :
        d \in { "true", "false", "missing" },
        r \in { "given", "missing" },
        c \in JsonConfidences }
    \cup { [kind |-> k, is_direct_answer |-> "missing", reason |-> "missing",
            confidence |-> [kind |-> "missing", val |-> 0]] :
           k \in { "error", "malformed", "notobject" } }

\* the except branch of json.loads in _llm_validation
JSONDecodeError_result_reject ==
    [raised |-> FALSE, is_valid |-> FALSE,
     reason |-> << "Validation inconclusive" >>,
     confidence |-> [kind |-> "num", val |-> 900]]

JSONDecodeError_result ==
    [raised |-> FALSE, is_valid |-> TRUE,
     reason |-> << "Validation inconclusive" >>,
     confidence |-> [kind |-> "num", val |-> 300]]

\* an exception leaving _llm_validation (logged and re-raised)
LlmRaised ==
    [raised |-> TRUE, is_valid |-> FALSE, reason |-> << >>,
     confidence |-> [kind |-> "missing", val |-> 0]]

(***************************************************************************)
(* SocraticGuard._llm_validation                                           *)
(***************************************************************************)
_llm_validation(judge) ==
    CASE judge.kind = "error" -> LlmRaised
      [] judge.kind = "notobject" -> LlmRaised
      [] judge.kind = "malformed" -> JSONDecodeError_result
      [] OTHER ->
            LET is_direct == (judge.is_direct_answer = "true")
                reason == IF judge.reason = "missing"
                          THEN << "No reason provided" >>
                          ELSE << "judge: reason" >>
                confidence == IF judge.confidence.kind = "missing"
                              THEN [kind |-> "num", val |-> 500]
                              ELSE judge.confidence
            IN [raised |-> FALSE, is_valid |-> ~is_direct,
                reason |-> reason, confidence |-> confidence]

(***************************************************************************)
(* SocraticGuard.validate_response.  The result carries, besides the       *)
(* returned tuple, whether an exception left the call (raised) and whether *)
(* the second-opinion call was made (llm_called).                          *)
(***************************************************************************)
Verdict(is_valid, reason, confidence, llm_called) ==
    [raised |-> FALSE, is_valid |-> is_valid, reason |-> reason,
     confidence |-> confidence, llm_called |-> llm_called]

\* `except Exception` of validate_response: fall back to the rules
OnLlmException_reraise(rule) ==
    [raised |-> TRUE, is_valid |-> FALSE, reason |-> << >>,
     confidence |-> 0, llm_called |-> TRUE]

OnLlmException(rule) ==
    Verdict(rule.is_valid, rule.reason, rule.confidence, TRUE)

\* the combination of the two verdicts inside the try block; the second
\* opinion returned normally with a numeric confidence
CombineVerdicts_average_first(rule, llm_is_valid, llm_reason, llm_confidence) ==
    IF ~rule.is_valid /\ ~llm_is_valid
    THEN Verdict(FALSE, << "Both validators rejected: " >> \o llm_reason,
                 (rule.confidence + llm_confidence) \div 2, TRUE)
    ELSE IF ~llm_is_valid /\ llm_confidence > 700
    THEN Verdict(FALSE, llm_reason, llm_confidence, TRUE)
    ELSE IF llm_is_valid /\ llm_confidence > 700
    THEN Verdict(TRUE, llm_reason, llm_confidence, TRUE)
    ELSE Verdict(rule.is_valid, rule.reason, rule.confidence, TRUE)

CombineVerdicts(rule, llm_is_valid, llm_reason, llm_confidence) ==
    IF ~llm_is_valid /\ llm_confidence > 700
    THEN Verdict(FALSE, llm_reason, llm_confidence, TRUE)
    ELSE IF ~rule.is_valid /\ ~llm_is_valid
    THEN Verdict(FALSE, << "Both validators rejected: " >> \o llm_reason,
                 (rule.confidence + llm_confidence) \div 2, TRUE)
    ELSE IF llm_is_valid /\ llm_confidence > 700
    THEN Verdict(TRUE, llm_reason, llm_confidence, TRUE)
    ELSE Verdict(rule.is_valid, rule.reason, rule.confidence, TRUE)

\* line 144: the rules are confident of a direct answer, the judge is not asked
RuleIsConfident_above_09(rule) == ~rule.is_valid /\ rule.confidence > 900

RuleIsConfident_at_least_08(rule) == ~rule.is_valid /\ rule.confidence >= 800

RuleIsConfident(rule) == ~rule.is_valid /\ rule.confidence > 800

validate_response(tutor_response, use_llm, judge) ==
    LET rule == _rule_based_validation(tutor_response)
    IN  IF RuleIsConfident(rule)
        THEN Verdict(FALSE, rule.reason, rule.confidence, FALSE)
        ELSE IF use_llm
        THEN LET llm == _llm_validation(judge)
             IN  IF llm.raised
                 THEN OnLlmException(rule)
                 ELSE IF llm.confidence.kind # "num"
                 \* comparing a non-number with 0.7 raises TypeError
                 THEN OnLlmException(rule)
                 ELSE CombineVerdicts(rule, llm.is_valid, llm.reason,
                                      llm.confidence.val)
        ELSE Verdict(rule.is_valid, rule.reason, rule.confidence, FALSE)

(***************************************************************************)
(* State.                                                                  *)
(*   Direct calls of validate_response (specification SpecValidate):       *)
(*     v_pc, v_response, v_use_llm, v_judge, v_verdict                     *)
(*   One call of generate_validated_response (specification Spec):         *)
(*     pc               position in the function                           *)
(*     is_correct_answer, max_retries   argument and constructor parameter *)
(*     is_final_answer, attempt, response, verdict, result   its locals    *)
(*     response_source, result_source   where the text came from           *)
(*     gen_log, val_log   the calls made so far to the generation          *)
(*                        capability and to validate_response              *)
(*     submitted          the text of the latest validate_response call    *)
(*   One call of MathDetector.detect (specification SpecDetect):           *)
(*     d_pc, d_text, d_min_confidence, d_result                            *)
(*   One call of an operation of SymPyService (specification SpecEngine):  *)
(*     e_pc, e_op       position and the operation called                  *)
(*     e_has_equals     whether the equation string contains '='           *)
(*     e_sympified      what sympify does with the string(s) parsed        *)
(*     e_cas            what the CAS operation does with the expression    *)
(*     e_result         the dictionary returned                            *)
(*   One call of AnswerValidator.validate_answer (specification            *)
(*   SpecAnswer):                                                          *)
(*     a_pc, a_sympified, a_cas, a_result                                  *)
(*   One call of a method of AnswerChecker (specification SpecChecker):    *)
(*     c_pc, c_message, c_history   position and the arguments             *)
(*     c_equation, c_answer, c_check   what extract_equation_from_history, *)
(*                        parse_student_answer and check_answer returned   *)
(*   The final-answer step of handle_message_send for one message        *)
(*   (specification SpecFlow):                                             *)
(*     f_pc, f_content, f_math_context, f_history   position, the message, *)
(*                        its math context and the conversation history    *)
(*     f_final, f_correct, f_explanation   is_final_answer,                *)
(*                        is_correct_answer and explanation of the handler *)
(*     f_passed           the is_correct_answer argument handed to         *)
(*                        generate_validated_response                      *)
(*     f_streak           conversation.consecutive_correct_count           *)
(*     f_celebration      whether celebration_service.update_streak ran    *)
(*   The message:send events and the database (specification SpecSend):    *)
(*     s_pc, s_message_id, s_is_new_conversation   each handler's position *)
(*                        and locals                                       *)
(*     s_emitted          the events each handler has emitted to its client*)
(*     db_conversation    whether the conversation row is committed        *)
(*     db_messages        the committed student rows, by message id        *)
(*     db_tutor           the committed tutor rows, by the message id they *)
(*                        answer                                           *)
(***************************************************************************)
VARIABLES v_pc, v_response, v_use_llm, v_judge, v_verdict,
          pc, is_correct_answer, max_retries, is_final_answer, attempt,
          response, verdict, result, response_source, result_source,
          gen_log, val_log, submitted,
          d_pc, d_text, d_min_confidence, d_result,
          e_pc, e_op, e_has_equals, e_sympified, e_cas, e_result,
          a_pc, a_sympified, a_cas, a_result,
          c_pc, c_message, c_history, c_equation, c_answer, c_check,
          f_pc, f_content, f_math_context, f_history, f_final, f_correct,
          f_explanation,
          f_passed, f_streak, f_celebration,
          s_pc, s_message_id, s_is_new_conversation, s_emitted,
          db_conversation, db_messages, db_tutor

valVars == << v_pc, v_response, v_use_llm, v_judge, v_verdict >>

orchVars == << pc, is_correct_answer, max_retries, is_final_answer, attempt,
               response, verdict, result, response_source, result_source,
               gen_log, val_log, submitted >>

detVars == << d_pc, d_text, d_min_confidence, d_result >>

\* the state of the services other than the Socratic guard
engVars == << e_pc, e_op, e_has_equals, e_sympified, e_cas, e_result >>

ansVars == << a_pc, a_sympified, a_cas, a_result >>

chkVars == << c_pc, c_message, c_history, c_equation, c_answer, c_check >>

flowVars == << f_pc, f_content, f_math_context, f_history, f_final, f_correct,
               f_explanation, f_passed, f_streak, f_celebration >>

sendVars == << s_pc, s_message_id, s_is_new_conversation, s_emitted,
               db_conversation, db_messages, db_tutor >>

\* the state of the answer checker and of the handler of message:send
handlerVars == << chkVars, flowVars, sendVars >>

serviceVars == << detVars, engVars, ansVars, handlerVars >>

vars == << valVars, orchVars, serviceVars >>

NoVerdict == Verdict(FALSE, << >>, 0, FALSE)

NoJudge ==
    [kind |-> "error", is_direct_answer |-> "missing", reason |-> "missing",
     confidence |-> [kind |-> "missing", val |-> 0]]

NoResult ==
    [response |-> << >>, validation_passed |-> FALSE, attempts |-> 0,
     confidence |-> 0, reason |-> << >>, is_final_answer |-> FALSE]

(***************************************************************************)
(* Specification SpecValidate: validate_response applied to every tutor    *)
(* response of at most MaxPhrases phrases, with and without the second     *)
(* opinion, for every behaviour of the judge.                              *)
(***************************************************************************)
ValIdle ==
    /\ v_pc = "idle" /\ v_response = << >> /\ v_use_llm = FALSE
    /\ v_judge = NoJudge /\ v_verdict = NoVerdict

OrchIdle ==
    /\ pc = "idle" /\ is_correct_answer = "None" /\ max_retries = 1
    /\ is_final_answer = FALSE /\ attempt = 0 /\ response = << >>
    /\ verdict = NoVerdict /\ result = NoResult
    /\ response_source = "none" /\ result_source = "none"
    /\ gen_log = << >> /\ val_log = << >> /\ submitted = << >>

\* the result detect returns for an empty text, line 279
_empty_result ==
    [has_math |-> FALSE, confidence |-> 0, expressions |-> << >>,
     overall_type |-> "None", detected_patterns |-> { }, text_length |-> 0]

DetIdle ==
    /\ d_pc = "idle" /\ d_text = << >> /\ d_min_confidence = 0
    /\ d_result = _empty_result

\* the result and error of a response of SymPyService that holds neither
NoValue ==
    [kind |-> "None", solvable |-> FALSE, solutions |-> << >>,
     message |-> "None", count |-> 0]

NoResponse ==
    [success |-> FALSE, result |-> NoValue, error |-> "None", raised |-> FALSE]

NoSolve == [raises |-> FALSE, solutions |-> << >>]

EngIdle ==
    /\ e_pc = "idle" /\ e_op = "none" /\ e_has_equals = FALSE
    /\ e_sympified = << "ok", "ok" >> /\ e_cas = NoSolve
    /\ e_result = NoResponse

NoEquivalence ==
    [simplify_raises |-> FALSE, difference_raises |-> FALSE,
     difference_is_zero |-> FALSE, free_symbols |-> FALSE,
     equals |-> "False", diff_value |-> [kind |-> "float", val |-> 0]]

NoValidation ==
    [correct |-> FALSE, explanation |-> "None", is_approximate |-> "absent",
     answers |-> "none", raised |-> FALSE]

AnsIdle ==
    /\ a_pc = "idle" /\ a_sympified = << "ok", "ok" >>
    /\ a_cas = NoEquivalence /\ a_result = NoValidation

\* the values of AnswerChecker that hold nothing
NoAnswer == [kind |-> "None", variable |-> "None", value |-> 0]

NoFloat == [kind |-> "None", val |-> 0]

NoCheck == [is_correct |-> FALSE, explanation |-> "None",
            expected_answer |-> NoFloat]

ChkIdle ==
    /\ c_pc = "idle" /\ c_message = "" /\ c_history = << >>
    /\ c_equation = "None" /\ c_answer = NoAnswer /\ c_check = NoCheck

\* math_context = None, line 189 of socket_events.py
NoContext == [kind |-> "None", detected |-> FALSE, expressions |-> << >>]

FlowIdle ==
    /\ f_pc = "idle" /\ f_content = "" /\ f_math_context = NoContext
    /\ f_history = << >>
    /\ f_final = FALSE /\ f_correct = FALSE /\ f_explanation = "None"
    /\ f_passed = "None" /\ f_streak = 0 /\ f_celebration = FALSE

Sends == 1..MaxSends

\* the message ids of this model
MessageIds == { "m1", "m2" }

SendIdle ==
    /\ s_pc = [s \in Sends |-> "idle"]
    /\ s_message_id = [s \in Sends |-> "None"]
    /\ s_is_new_conversation = [s \in Sends |-> FALSE]
    /\ s_emitted = [s \in Sends |-> << >>]
    /\ db_conversation = FALSE
    /\ db_messages = [m \in MessageIds |-> 0]
    /\ db_tutor = [m \in MessageIds |-> 0]

HandlersIdle == ChkIdle /\ FlowIdle /\ SendIdle

ServicesIdle == DetIdle /\ EngIdle /\ AnsIdle /\ HandlersIdle

InitValidate ==
    /\ v_pc = "call"
    /\ v_response \in Texts(MaxPhrases)
    /\ v_use_llm \in BOOLEAN
    /\ v_judge \in JudgeOutcomes
    /\ v_verdict = NoVerdict
    /\ OrchIdle
    /\ ServicesIdle

ValidateResponse ==
    /\ v_pc = "call"
    /\ v_verdict' = validate_response(v_response, v_use_llm, v_judge)
    /\ v_pc' = "returned"
    /\ UNCHANGED << v_response, v_use_llm, v_judge >>
    /\ UNCHANGED << orchVars, serviceVars >>

NextValidate == ValidateResponse

SpecValidate == InitValidate /\ [][NextValidate]_vars

(***************************************************************************)
(* SocraticGuard.generate_socratic_response: the completion call either    *)
(* returns a text or raises; when it raises, the except branch returns     *)
(* random.choice(FALLBACK_QUESTIONS).                                      *)
(***************************************************************************)
Completions ==
    { [failed |-> FALSE, text |-> t] : t \in Texts(MaxGenPhrases) }
    \cup { [failed |-> TRUE, text |-> << >>] }

\* random.choice(FALLBACK_QUESTIONS) is drawn only when the call has failed
Choices(completion) ==
    IF completion.failed THEN DOMAIN FALLBACK_QUESTIONS ELSE { 1 }

emphasis(n) ==
    << "", "IMPORTANT: ", "CRITICAL: " >>[IF n - 1 < 2 THEN n - 1 + 1 ELSE 2 + 1]

generate_socratic_response(completion, choice) ==
    IF completion.failed THEN FALLBACK_QUESTIONS[choice] ELSE completion.text

GenCall(n, completion) ==
    [attempt |-> n, emphasis |-> emphasis(n), failed |-> completion.failed]

(***************************************************************************)
(* The three dictionaries generate_validated_response returns.             *)
(***************************************************************************)
SkippedResult(resp, final) ==
    [response |-> resp, validation_passed |-> TRUE, attempts |-> 1,
     confidence |-> 1000,
     reason |-> << "Validation skipped for acknowledgment response" >>,
     is_final_answer |-> final]

AcceptedResult_full_confidence(resp, n, v, final) ==
    [response |-> resp, validation_passed |-> TRUE, attempts |-> n,
     confidence |-> 1000, reason |-> v.reason,
     is_final_answer |-> final]

AcceptedResult(resp, n, v, final) ==
    [response |-> resp, validation_passed |-> TRUE, attempts |-> n,
     confidence |-> v.confidence, reason |-> v.reason,
     is_final_answer |-> final]

FallbackResult_passed(fallback, retries, final) ==
    [response |-> fallback, validation_passed |-> TRUE, attempts |-> retries,
     confidence |-> 1000, reason |-> << "Used fallback after max retries" >>,
     is_final_answer |-> final]

FallbackResult(fallback, retries, final) ==
    [response |-> fallback, validation_passed |-> FALSE, attempts |-> retries,
     confidence |-> 1000, reason |-> << "Used fallback after max retries" >>,
     is_final_answer |-> final]

(***************************************************************************)
(* Specification Spec: one call of generate_validated_response.            *)
(***************************************************************************)
Init ==
    /\ pc = "start"
    /\ is_correct_answer \in { "None", "True", "False" }
    /\ max_retries \in 1..MaxRetries
    /\ is_final_answer = FALSE /\ attempt = 0 /\ response = << >>
    /\ verdict = NoVerdict /\ result = NoResult
    /\ response_source = "none" /\ result_source = "none"
    /\ gen_log = << >> /\ val_log = << >> /\ submitted = << >>
    /\ ValIdle
    /\ ServicesIdle

\* line 581: `if is_valid:`
Accepts_any(v) == TRUE

Accepts(v) == v.is_valid

\* lines 540-545 and the head of the for loop
Begin_never_skips ==
    /\ pc = "start"
    /\ is_final_answer' = (is_correct_answer # "None")
    /\ attempt' = 1
    /\ pc' = "generate"
    /\ UNCHANGED << is_correct_answer, max_retries, response, verdict, result,
                    response_source, result_source, gen_log, val_log,
                    submitted >>
    /\ UNCHANGED << valVars, serviceVars >>

Begin ==
    /\ pc = "start"
    /\ is_final_answer' = (is_correct_answer # "None")
    /\ attempt' = 1
    /\ pc' = IF is_correct_answer # "None" THEN "skip" ELSE "generate"
    /\ UNCHANGED << is_correct_answer, max_retries, response, verdict, result,
                    response_source, result_source, gen_log, val_log,
                    submitted >>
    /\ UNCHANGED << valVars, serviceVars >>

\* lines 545-561: celebration or correction, validation skipped
GenerateOnce ==
    /\ pc = "skip"
    /\ \E completion \in Completions : \E choice \in Choices(completion) :
          /\ response' = generate_socratic_response(completion, choice)
          /\ response_source' = IF completion.failed THEN "fallback" ELSE "llm"
          /\ gen_log' = Append(gen_log, GenCall(1, completion))
    /\ result' = SkippedResult(response', is_final_answer)
    /\ result_source' = response_source'
    /\ pc' = "done"
    /\ UNCHANGED << is_correct_answer, max_retries, is_final_answer, attempt,
                    verdict, val_log, submitted >>
    /\ UNCHANGED << valVars, serviceVars >>

\* lines 563-573: one more iteration of the loop, the generation call
Generate ==
    /\ pc = "generate"
    /\ attempt <= max_retries
    /\ \E completion \in Completions : \E choice \in Choices(completion) :
          /\ response' = generate_socratic_response(completion, choice)
          /\ response_source' = IF completion.failed THEN "fallback" ELSE "llm"
          /\ gen_log' = Append(gen_log, GenCall(attempt, completion))
    /\ pc' = "validate"
    /\ UNCHANGED << is_correct_answer, max_retries, is_final_answer, attempt,
                    verdict, result, result_source, val_log, submitted >>
    /\ UNCHANGED << valVars, serviceVars >>

\* lines 575-595: the validation call and the test of its verdict.  The
\* locals of a rejected attempt are dead (the next iteration assigns them
\* before it reads them and the fallback return does not read them), so
\* they are cleared.
Validate ==
    /\ pc = "validate"
    /\ \E v \in { validate_response(response, TRUE, judge) : judge \in JudgeOutcomes } :
          /\ val_log' = Append(val_log, [attempt |-> attempt,
                                         is_valid |-> v.is_valid])
          /\ IF v.raised
             THEN /\ pc' = "raised"
                  /\ verdict' = v
                  /\ submitted' = response
                  /\ UNCHANGED << attempt, response, response_source, result,
                                  result_source >>
             ELSE IF Accepts(v)
             THEN /\ result' = AcceptedResult(response, attempt, v, is_final_answer)
                  /\ result_source' = response_source
                  /\ verdict' = v
                  /\ submitted' = response
                  /\ pc' = "done"
                  /\ UNCHANGED << attempt, response, response_source >>
             ELSE /\ attempt' = attempt + 1
                  /\ verdict' = NoVerdict
                  /\ submitted' = << >>
                  /\ response' = << >>
                  /\ response_source' = "none"
                  /\ pc' = "generate"
                  /\ UNCHANGED << result, result_source >>
    /\ UNCHANGED << is_correct_answer, max_retries, is_final_answer, gen_log >>
    /\ UNCHANGED << valVars, serviceVars >>

\* lines 597-609: the loop is exhausted
Fallback ==
    /\ pc = "generate"
    /\ attempt > max_retries
    /\ \E choice \in DOMAIN FALLBACK_QUESTIONS :
          result' = FallbackResult(FALLBACK_QUESTIONS[choice], max_retries,
                                   is_final_answer)
    /\ result_source' = "fallback"
    /\ pc' = "done"
    /\ UNCHANGED << is_correct_answer, max_retries, is_final_answer, attempt,
                    response, verdict, response_source, gen_log, val_log,
                    submitted >>
    /\ UNCHANGED << valVars, serviceVars >>

Next == Begin \/ GenerateOnce \/ Generate \/ Validate \/ Fallback

Spec == Init /\ [][Next]_vars

(***************************************************************************)
(* Model of the math detector (backend/app/services/math_detector.py).     *)
(*                                                                         *)
(* A text is a sequence of clauses joined by single spaces.  Every clause  *)
(* ends with a comma, which none of the patterns matches across, so the    *)
(* matches re.finditer finds in a text are the matches it finds in the     *)
(* clauses, shifted by the offset of the clause; the tables below hold     *)
(* what the regular expressions of PATTERNS find in each clause.           *)
(*                                                                         *)
(* The confidences of the detector are IEEE-754 doubles and are compared   *)
(* with >=.  A double is written 10 * t + r: t is its value in thousandths *)
(* and r in {-1, 0, 1} says whether it lies below, at or above the double  *)
(* nearest to t / 1000 (0.7 + 2 * 0.05 is 0.7999999999999999, written      *)
(* 7999; 0.9 + 0.05 is 0.9500000000000001, written 9501).                  *)
(***************************************************************************)
PATTERNS ==
    << [name |-> "answer_statement", type |-> "answer_statement",
        confidence |-> 9500, exclude_answer_statement |-> FALSE],
       [name |-> "equation", type |-> "equation",
        confidence |-> 9000, exclude_answer_statement |-> TRUE],
       [name |-> "inequality", type |-> "inequality",
        confidence |-> 8500, exclude_answer_statement |-> FALSE],
       [name |-> "algebraic_expression", type |-> "expression",
        confidence |-> 8000, exclude_answer_statement |-> FALSE],
       [name |-> "algebraic_term", type |-> "expression",
        confidence |-> 7500, exclude_answer_statement |-> FALSE],
       [name |-> "numerical", type |-> "numerical",
        confidence |-> 7000, exclude_answer_statement |-> FALSE],
       [name |-> "function", type |-> "expression",
        confidence |-> 8500, exclude_answer_statement |-> FALSE],
       [name |-> "fraction", type |-> "numerical",
        confidence |-> 6500, exclude_answer_statement |-> FALSE] >>

MATH_KEYWORDS ==
    << "solve", "simplify", "factor", "expand", "equation", "expression",
       "calculate", "compute", "evaluate", "answer", "solution", "equal",
       "plus", "minus", "times", "divided", "multiply", "subtract", "add" >>

NON_MATH_KEYWORDS ==
    << "email", "address", "password", "username", "code", "id",
       "phone", "zip", "date", "time", "version" >>

\* the clauses a student message is made of in this model
Clauses ==
    { "x + 5 = 10,", "x = 5,", "sin(x) > 5,", "x + sin(x),", "2x,", "1/2,",
      "solve,", "solve and solve,", "times,", "divided,", "my id,",
      "please look at this one with me when you really can," }

DetectTexts(n) == UNION { [1..k -> Clauses] : k \in 0..n }

\* the offset of the i-th clause in the text
RECURSIVE ClauseOffset(_, _)
ClauseOffset(text, i) ==
    IF i = 1 THEN 0 ELSE ClauseOffset(text, i - 1) + Len(text[i - 1]) + 1

\* len(text)
len(text) ==
    IF text = << >> THEN 0
    ELSE ClauseOffset(text, Len(text)) + Len(text[Len(text)])

\* re.finditer(pattern_def['regex'], clause, re.IGNORECASE) for every pattern:
\* the name of the pattern, match.start(), match.end() and
\* match.group(0).strip()
ClauseMatches(clause) ==
    CASE clause = "x + 5 = 10," ->
           << [pattern |-> "equation", start |-> 0, end |-> 10,
               text |-> "x + 5 = 10"],
              [pattern |-> "algebraic_expression", start |-> 0, end |-> 5,
               text |-> "x + 5"] >>
      [] clause = "x = 5," ->
           << [pattern |-> "answer_statement", start |-> 0, end |-> 5,
               text |-> "x = 5"],
              [pattern |-> "equation", start |-> 0, end |-> 5,
               text |-> "x = 5"] >>
      [] clause = "sin(x) > 5," ->
           << [pattern |-> "inequality", start |-> 0, end |-> 10,
               text |-> "sin(x) > 5"],
              [pattern |-> "algebraic_term", start |-> 3, end |-> 6,
               text |-> "(x)"],
              [pattern |-> "function", start |-> 0, end |-> 6,
               text |-> "sin(x)"] >>
      [] clause = "x + sin(x)," ->
           << [pattern |-> "algebraic_expression", start |-> 0, end |-> 5,
               text |-> "x + s"],
              [pattern |-> "algebraic_term", start |-> 7, end |-> 10,
               text |-> "(x)"],
              [pattern |-> "function", start |-> 4, end |-> 10,
               text |-> "sin(x)"] >>
      [] clause = "2x," ->
           << [pattern |-> "algebraic_term", start |-> 0, end |-> 2,
               text |-> "2x"] >>
      [] clause = "1/2," ->
           << [pattern |-> "numerical", start |-> 0, end |-> 3,
               text |-> "1/2"],
              [pattern |-> "fraction", start |-> 0, end |-> 3,
               text |-> "1/2"] >>
      [] OTHER -> << >>

\* the matches of one pattern in the text, in the order finditer yields them
RECURSIVE finditer_upto(_, _, _)
finditer_upto(name, text, k) ==
    IF k = 0 THEN << >>
    ELSE LET here == SelectSeq(ClauseMatches(text[k]),
                               LAMBDA m : m.pattern = name)
             off  == ClauseOffset(text, k)
         IN  finditer_upto(name, text, k - 1)
             \o [i \in DOMAIN here |->
                    [here[i] EXCEPT !.start = @ + off, !.end = @ + off]]

finditer(name, text) == finditer_upto(name, text, Len(text))

\* line 144: re.match(r'^\s*[a-zA-Z]\s*=\s*[-]?\d+(?:\.\d+)?\s*$', matched_text)
IsSimpleAnswer(matched_text) == matched_text \in { "x = 5" }

\* the keywords of MATH_KEYWORDS and NON_MATH_KEYWORDS that occur in a
\* clause and how often: << clause, keyword, occurrences >>.  'time' occurs
\* inside 'times' and 'id' inside 'divided'.
KeywordOccurrences ==
    { << "solve,", "solve", 1 >>, << "solve and solve,", "solve", 2 >>,
      << "times,", "times", 1 >>, << "times,", "time", 1 >>,
      << "divided,", "divided", 1 >>, << "divided,", "id", 1 >>,
      << "my id,", "id", 1 >> }

\* str.count(keyword) on the clause
CountIn(keyword, clause) ==
    IF \E o \in KeywordOccurrences : o[1] = clause /\ o[2] = keyword
    THEN (CHOOSE o \in KeywordOccurrences :
              o[1] = clause /\ o[2] = keyword)[3]
    ELSE 0

\* `keyword in full_text_lower`
In(keyword, full_text) ==
    \E i \in DOMAIN full_text : CountIn(keyword, full_text[i]) > 0

\* line 205, occurrences counted instead of keywords
math_keyword_count_occurrences(full_text) ==
    LET RECURSIVE total(_, _)
        total(k, i) ==
            IF k = 0 THEN 0
            ELSE IF i = 0 THEN total(k - 1, Len(full_text))
            ELSE total(k, i - 1) + CountIn(MATH_KEYWORDS[k], full_text[i])
    IN  total(Len(MATH_KEYWORDS), Len(full_text))

\* line 205: sum(1 for keyword in self.MATH_KEYWORDS if keyword in ...)
math_keyword_count(full_text) ==
    Cardinality({ k \in DOMAIN MATH_KEYWORDS : In(MATH_KEYWORDS[k], full_text) })

\* line 210
non_math_keyword_count(full_text) ==
    Cardinality({ k \in DOMAIN NON_MATH_KEYWORDS :
                     In(NON_MATH_KEYWORDS[k], full_text) })

\* The rounding of the double arithmetic of _adjust_confidence, lines
\* 207, 212 and 216, for a base confidence, up to three math keywords, up
\* to two non-math keywords and with or without the reduction of line 216:
\* the arguments for which the double returned lies below, or above, the
\* double nearest to the exact decimal result.
RoundsBelow ==
    {
      << 8500, 0, 0, TRUE >>, << 7000, 0, 0, TRUE >>, << 9500, 0, 1, TRUE >>,
      << 7000, 0, 1, TRUE >>, << 9000, 0, 2, TRUE >>, << 8500, 0, 2, FALSE >>,
      << 8500, 0, 2, TRUE >>, << 7000, 0, 2, FALSE >>, << 7000, 0, 2, TRUE >>,
      << 8500, 1, 2, TRUE >>, << 7500, 2, 0, TRUE >>, << 7000, 2, 0, FALSE >>,
      << 7000, 2, 0, TRUE >>, << 8500, 2, 1, TRUE >>, << 7000, 2, 1, TRUE >>,
      << 8000, 2, 2, TRUE >>, << 7500, 2, 2, FALSE >>, << 7500, 2, 2, TRUE >>,
      << 7000, 2, 2, FALSE >>, << 7000, 2, 2, TRUE >>, << 7000, 3, 0, TRUE >>,
      << 7500, 3, 2, TRUE >>, << 7000, 3, 2, FALSE >>, << 7000, 3, 2, TRUE >> }

RoundsAbove ==
    {
      << 8000, 0, 0, TRUE >>, << 9000, 0, 1, TRUE >>, << 8000, 0, 1, FALSE >>,
      << 6500, 0, 1, TRUE >>, << 8000, 0, 2, FALSE >>, << 8000, 0, 2, TRUE >>,
      << 7500, 0, 2, TRUE >>, << 9000, 1, 0, FALSE >>, << 8000, 1, 0, FALSE >>,
      << 8000, 1, 0, TRUE >>, << 7500, 1, 0, TRUE >>, << 6500, 1, 0, FALSE >>,
      << 9000, 1, 1, FALSE >>, << 9000, 1, 1, TRUE >>, << 8500, 1, 1, TRUE >>,
      << 8000, 1, 1, FALSE >>, << 7500, 1, 1, FALSE >>, << 6500, 1, 1, FALSE >>,
      << 6500, 1, 1, TRUE >>, << 9500, 1, 2, TRUE >>, << 8000, 1, 2, FALSE >>,
      << 8000, 1, 2, TRUE >>, << 7500, 1, 2, FALSE >>, << 7500, 1, 2, TRUE >>,
      << 7000, 1, 2, TRUE >>, << 8000, 2, 1, TRUE >>, << 9500, 2, 2, TRUE >>,
      << 9000, 2, 2, TRUE >>, << 6500, 2, 2, TRUE >>, << 8000, 3, 0, FALSE >>,
      << 6500, 3, 0, TRUE >>, << 8000, 3, 1, FALSE >>, << 8000, 3, 1, TRUE >>,
      << 7500, 3, 1, TRUE >>, << 6500, 3, 1, FALSE >>, << 9500, 3, 2, TRUE >>,
      << 9000, 3, 2, TRUE >>, << 8500, 3, 2, TRUE >>, << 6500, 3, 2, FALSE >>,
      << 6500, 3, 2, TRUE >> }

Rounding(base_confidence, m, n, short) ==
    IF << base_confidence, m, n, short >> \in RoundsBelow THEN -1
    ELSE IF << base_confidence, m, n, short >> \in RoundsAbove THEN 1
    ELSE 0

Min(a, b) == IF a <= b THEN a ELSE b

Max(a, b) == IF a >= b THEN a ELSE b

\* MathDetector._adjust_confidence
_adjust_confidence(full_text, matched_text, base_confidence) ==
    LET m     == math_keyword_count(full_text)
        n     == non_math_keyword_count(full_text)
        short == Len(matched_text) < 3 /\ len(full_text) > 50
        c1    == IF m > 0 THEN Min(10000, base_confidence + m * 500)
                 ELSE base_confidence
        c2    == IF n > 0 THEN Max(0, c1 - n * 1000) ELSE c1
        c3    == IF short THEN Max(0, c2 - 2000) ELSE c2
    IN  c3 + Rounding(base_confidence, m, n, short)

\* lines 134-163 for one pattern: the matches that are appended to
\* detected_expressions
ScanPattern(text, pattern_def, min_confidence) ==
    LET matches == finditer(pattern_def.name, text)
        confidence(m) ==
            _adjust_confidence(text, m.text, pattern_def.confidence)
        kept == SelectSeq(matches, LAMBDA m :
                    /\ ~(Len(m.text) < 2)
                    /\ ~(pattern_def.exclude_answer_statement
                         /\ IsSimpleAnswer(m.text))
                    /\ confidence(m) >= min_confidence)
    IN  [i \in DOMAIN kept |->
            [text |-> kept[i].text, type |-> pattern_def.type,
             pattern_name |-> pattern_def.name,
             confidence |-> confidence(kept[i]),
             start |-> kept[i].start, end |-> kept[i].end]]

\* lines 131-163: detected_expressions after the loop over PATTERNS
RECURSIVE ScanUpto(_, _, _)
ScanUpto(text, min_confidence, k) ==
    IF k = 0 THEN << >>
    ELSE ScanUpto(text, min_confidence, k - 1)
         \o ScanPattern(text, PATTERNS[k], min_confidence)

Scan(text, min_confidence) == ScanUpto(text, min_confidence, Len(PATTERNS))

\* lines 128 and 163: max_confidence after the loop
RECURSIVE MaxConfidence(_)
MaxConfidence(exprs) ==
    IF exprs = << >> THEN 0
    ELSE Max(MaxConfidence(Tail(exprs)), Head(exprs).confidence)

\* line 235, the candidates ordered by start alone
SortKeyLess_by_start(a, b) == a.start < b.start

\* line 235: key=lambda x: (-x['confidence'], x['start'])
SortKeyLess(a, b) ==
    \/ a.confidence > b.confidence
    \/ a.confidence = b.confidence /\ a.start < b.start

Remove(seq, i) ==
    [j \in 1..(Len(seq) - 1) |-> IF j < i THEN seq[j] ELSE seq[j + 1]]

\* lines 233-236: sorted() is stable
RECURSIVE SortedExprs(_)
SortedExprs(exprs) ==
    IF exprs = << >> THEN << >>
    ELSE LET i == CHOOSE i \in DOMAIN exprs :
                      \A j \in DOMAIN exprs \ { i } :
                          \/ SortKeyLess(exprs[i], exprs[j])
                          \/ ~SortKeyLess(exprs[j], exprs[i]) /\ i < j
         IN  << exprs[i] >> \o SortedExprs(Remove(exprs, i))

\* lines 242-248, no range ever overlapping
Overlaps_never(expr, deduplicated) == FALSE

\* lines 242-248: used_ranges holds the ranges of the expressions accepted
Overlaps(expr, deduplicated) ==
    \E u \in DOMAIN deduplicated :
        \E pos \in expr.start .. (expr.end - 1) :
            pos \in deduplicated[u].start .. (deduplicated[u].end - 1)

\* lines 241-252
RECURSIVE Greedy(_, _)
Greedy(sorted_exprs, deduplicated) ==
    IF sorted_exprs = << >> THEN deduplicated
    ELSE Greedy(Tail(sorted_exprs),
                IF Overlaps(Head(sorted_exprs), deduplicated)
                THEN deduplicated
                ELSE Append(deduplicated, Head(sorted_exprs)))

\* line 255: deduplicated.sort(key=lambda x: x['start']), stable
RECURSIVE SortedByStart(_)
SortedByStart(exprs) ==
    IF exprs = << >> THEN << >>
    ELSE LET i == CHOOSE i \in DOMAIN exprs :
                      \A j \in DOMAIN exprs \ { i } :
                          \/ exprs[i].start < exprs[j].start
                          \/ exprs[i].start = exprs[j].start /\ i < j
         IN  << exprs[i] >> \o SortedByStart(Remove(exprs, i))

\* MathDetector._deduplicate_expressions
_deduplicate_expressions(expressions) ==
    IF Len(expressions) <= 1 THEN expressions
    ELSE SortedByStart(Greedy(SortedExprs(expressions), << >>))

\* MathDetector._determine_overall_type: max() returns the first of the
\* expressions of highest confidence
_determine_overall_type(expressions) ==
    IF expressions = << >> THEN "None"
    ELSE LET i == CHOOSE i \in DOMAIN expressions :
                      \A j \in DOMAIN expressions :
                          \/ expressions[i].confidence > expressions[j].confidence
                          \/ expressions[i].confidence = expressions[j].confidence
                             /\ i <= j
         IN  expressions[i].type

\* line 171, the emptiness of the list not tested
has_math_by_confidence_alone(detected_expressions, max_confidence, min_confidence) ==
    max_confidence >= min_confidence

\* line 171
has_math(detected_expressions, max_confidence, min_confidence) ==
    Len(detected_expressions) > 0 /\ max_confidence >= min_confidence

\* MathDetector.detect
detect(text, min_confidence) ==
    IF text = << >> THEN _empty_result
    ELSE LET scanned              == Scan(text, min_confidence)
             max_confidence       == MaxConfidence(scanned)
             detected_expressions == _deduplicate_expressions(scanned)
         IN  [has_math |-> has_math(detected_expressions, max_confidence,
                                    min_confidence),
              confidence |-> max_confidence,
              expressions |-> detected_expressions,
              overall_type |-> _determine_overall_type(detected_expressions),
              detected_patterns |->
                  { scanned[i].pattern_name : i \in DOMAIN scanned },
              text_length |-> len(text)]

(***************************************************************************)
(* Specification SpecDetect: detect applied to every text of at most       *)
(* MaxClauses clauses, by a detector constructed with the default          *)
(* min_confidence or with another threshold.                               *)
(***************************************************************************)
MinConfidences == { 0, 6000, 8000 }

InitDetect ==
    /\ d_pc = "call"
    /\ d_text \in DetectTexts(MaxClauses)
    /\ d_min_confidence \in MinConfidences
    /\ d_result = _empty_result
    /\ ValIdle
    /\ OrchIdle
    /\ EngIdle
    /\ AnsIdle
    /\ HandlersIdle

Detect ==
    /\ d_pc = "call"
    /\ d_result' = detect(d_text, d_min_confidence)
    /\ d_pc' = "returned"
    /\ UNCHANGED << d_text, d_min_confidence >>
    /\ UNCHANGED << valVars, orchVars, engVars, ansVars, handlerVars >>

NextDetect == Detect

SpecDetect == InitDetect /\ [][NextDetect]_vars

(***************************************************************************)
(* Model of the symbolic engine (backend/app/services/sympy_service.py).   *)
(* SymPy is the CAS capability; what each of its functions does with an    *)
(* input is an input of the model:                                         *)
(*   sympify   returns an expression ("ok") or raises SympifyError,        *)
(*             TypeError or another exception                              *)
(*   simplify, factor, expand, diff, integrate   return an expression or   *)
(*             raise                                                       *)
(*   solve     returns a list or raises (as do symbols and the             *)
(*             subtraction of the two sides before it)                     *)
(* An item of the list solve returns is a number or the boolean True; as   *)
(* in Python, True is the integer 1 when it is compared with a number.     *)
(***************************************************************************)
SympifyOutcomes == { "ok", "SympifyError", "TypeError", "Exception" }

\* the roots solve returns in this model
Roots == { 0, 1, 2 }

PyTrue == [bool |-> TRUE, value |-> 1]

Root(n) == [bool |-> FALSE, value |-> n]

\* Python's == on two items
PyEq(a, b) == a.value = b.value

\* Python's == on two lists
PyListEq(s, t) ==
    Len(s) = Len(t) /\ \A i \in DOMAIN s : PyEq(s[i], t[i])

\* str(sol)
str(item) == IF item.bool THEN "True" ELSE ToString(item.value)

RootLists(n) == UNION { [1..k -> { Root(r) : r \in Roots }] : k \in 1..n }

SolveOutcomes ==
    { [raises |-> TRUE, solutions |-> << >>] }
    \cup { [raises |-> FALSE, solutions |-> s] :
              s \in { << >>, << PyTrue >> } \cup RootLists(MaxRoots) }

CasOutcomes == { [raises |-> b, solutions |-> << >>] : b \in BOOLEAN }

\* SymPyService._standardize_response
_standardize_response(success, value, error) ==
    [success |-> success, result |-> value, error |-> error,
     raised |-> FALSE]

\* an exception leaves the operation
Raised ==
    [success |-> FALSE, result |-> NoValue, error |-> "None", raised |-> TRUE]

ExprValue == [NoValue EXCEPT !.kind = "expr"]

StrValue == [NoValue EXCEPT !.kind = "str"]

\* lines 68-71, without the handler
OnUnexpectedParseError_propagates == Raised

\* lines 68-71: except Exception
OnUnexpectedParseError ==
    _standardize_response(FALSE, NoValue, "An unexpected error occurred")

\* SymPyService.parse_expression
parse_expression(sympified) ==
    CASE sympified = "ok" ->
           _standardize_response(TRUE, ExprValue, "None")
      [] sympified = "SympifyError" ->
           _standardize_response(FALSE, NoValue,
               "Could not parse expression. Check your syntax: {e}")
      [] sympified = "TypeError" ->
           _standardize_response(FALSE, NoValue,
               "Invalid expression type: {e}")
      [] OTHER -> OnUnexpectedParseError

\* the body shared by simplify_expression, factor_expression,
\* expand_expression, differentiate and integrate_expression: parse, return
\* a failed parse as it is, apply the CAS function, and turn any exception
\* into a failure
CasOperation(sympified, cas, error_msg) ==
    LET parse_result == parse_expression(sympified)
    IN  IF parse_result.raised
        THEN _standardize_response(FALSE, NoValue, error_msg)
        ELSE IF ~parse_result.success THEN parse_result
        ELSE IF cas.raises
        THEN _standardize_response(FALSE, NoValue, error_msg)
        ELSE _standardize_response(TRUE, StrValue, "None")

\* SymPyService.simplify_expression
simplify_expression(sympified, cas) ==
    CasOperation(sympified, cas, "Simplification error: {e}")

\* SymPyService.factor_expression
factor_expression(sympified, cas) ==
    CasOperation(sympified, cas, "Factoring error: {e}")

\* SymPyService.expand_expression
expand_expression(sympified, cas) ==
    CasOperation(sympified, cas, "Expansion error: {e}")

\* SymPyService.differentiate
differentiate(sympified, cas) ==
    CasOperation(sympified, cas, "Differentiation error: {e}")

\* SymPyService.integrate_expression
integrate_expression(sympified, cas) ==
    CasOperation(sympified, cas, "Integration error: {e}")

\* lines 190-197
NoSolutionFound ==
    [kind |-> "dict", solvable |-> FALSE, solutions |-> << >>,
     message |-> "No solution found", count |-> 0]

\* lines 201-208
InfiniteSolutions ==
    [kind |-> "dict", solvable |-> FALSE, solutions |-> << >>,
     message |-> "Infinite solutions (identity)", count |-> 0]

\* lines 210-220
Solved(solutions) ==
    [kind |-> "dict", solvable |-> TRUE,
     solutions |-> [i \in DOMAIN solutions |-> str(solutions[i])],
     message |-> "None", count |-> Len(solutions)]

\* SymPyService.solve_equation: sympified[1] is what sympify does with the
\* left side (or with the whole string when it has no '='), sympified[2]
\* what it does with the right side
solve_equation(has_equals, sympified, cas) ==
    LET failure      == _standardize_response(FALSE, NoValue,
                                              "Error solving equation: {e}")
        left_parse   == parse_expression(sympified[1])
        right_parse  == parse_expression(sympified[2])
        parse_result == parse_expression(sympified[1])
        solutions    == cas.solutions
    IN  IF has_equals /\ (left_parse.raised \/ right_parse.raised)
        THEN failure
        ELSE IF has_equals /\ ~left_parse.success THEN left_parse
        ELSE IF has_equals /\ ~right_parse.success THEN right_parse
        ELSE IF ~has_equals /\ parse_result.raised THEN failure
        ELSE IF ~has_equals /\ ~parse_result.success THEN parse_result
        ELSE IF cas.raises THEN failure
        ELSE IF solutions = << >>
        THEN _standardize_response(TRUE, NoSolutionFound, "None")
        ELSE IF PyListEq(solutions, << PyTrue >>)
        THEN _standardize_response(TRUE, InfiniteSolutions, "None")
        ELSE _standardize_response(TRUE, Solved(solutions), "None")

(***************************************************************************)
(* Specification SpecEngine: one call of an operation of SymPyService, for *)
(* every behaviour of the CAS.                                             *)
(***************************************************************************)
UnaryOperations ==
    { "simplify_expression", "factor_expression", "expand_expression",
      "differentiate", "integrate_expression" }

InitEngine ==
    /\ e_pc = "call"
    /\ e_result = NoResponse
    /\ \/ /\ e_op = "parse_expression"
          /\ e_has_equals = FALSE
          /\ e_sympified \in SympifyOutcomes \X { "ok" }
          /\ e_cas = NoSolve
       \/ /\ e_op \in UnaryOperations
          /\ e_has_equals = FALSE
          /\ e_sympified \in SympifyOutcomes \X { "ok" }
          /\ e_cas \in CasOutcomes
       \/ /\ e_op = "solve_equation"
          /\ e_has_equals \in BOOLEAN
          /\ e_sympified \in SympifyOutcomes
                                \X (IF e_has_equals THEN SympifyOutcomes
                                    ELSE { "ok" })
          /\ e_cas \in SolveOutcomes
    /\ ValIdle
    /\ OrchIdle
    /\ DetIdle
    /\ AnsIdle
    /\ HandlersIdle

Returns(op, returned) ==
    /\ e_pc = "call"
    /\ e_op = op
    /\ e_result' = returned
    /\ e_pc' = IF returned.raised THEN "raised" ELSE "returned"
    /\ UNCHANGED << e_op, e_has_equals, e_sympified, e_cas >>
    /\ UNCHANGED << valVars, orchVars, detVars, ansVars, handlerVars >>

ParseExpression ==
    Returns("parse_expression", parse_expression(e_sympified[1]))

SimplifyExpression ==
    Returns("simplify_expression", simplify_expression(e_sympified[1], e_cas))

FactorExpression ==
    Returns("factor_expression", factor_expression(e_sympified[1], e_cas))

ExpandExpression ==
    Returns("expand_expression", expand_expression(e_sympified[1], e_cas))

SolveEquation ==
    Returns("solve_equation",
            solve_equation(e_has_equals, e_sympified, e_cas))

Differentiate ==
    Returns("differentiate", differentiate(e_sympified[1], e_cas))

IntegrateExpression ==
    Returns("integrate_expression",
            integrate_expression(e_sympified[1], e_cas))

NextEngine ==
    \/ ParseExpression
    \/ SimplifyExpression
    \/ FactorExpression
    \/ ExpandExpression
    \/ SolveEquation
    \/ Differentiate
    \/ IntegrateExpression

SpecEngine == InitEngine /\ [][NextEngine]_vars

(***************************************************************************)
(* Model of the answer validator                                           *)
(* (backend/app/services/answer_validator.py).  What the CAS finds about   *)
(* the two parsed answers is an input of the model:                        *)
(*   simplify_raises     simplify raises on one of the answers             *)
(*   difference_raises   simplify(expr1 - expr2) raises                    *)
(*   difference_is_zero  difference == 0                                   *)
(*   free_symbols        difference.free_symbols is not empty              *)
(*   equals              what expr1.equals(expr2) returns, or "raises"     *)
(*   diff_value          float(N(difference)): a float, in ten-thousandths *)
(*                       (0.001 is 10), nan, or the exception raised       *)
(***************************************************************************)
TOLERANCE == 10

DiffValues ==
    { [kind |-> "float", val |-> v] : v \in { -11, -10, -9, 0, 9, 10, 11 } }
    \cup { [kind |-> k, val |-> 0] :
              k \in { "nan", "ValueError", "TypeError", "Exception" } }

EquivalenceOutcomes ==
    [simplify_raises : BOOLEAN, difference_raises : BOOLEAN,
     difference_is_zero : BOOLEAN, free_symbols : BOOLEAN,
     equals : { "True", "False", "None", "raises" },
     diff_value : DiffValues]

abs(x) == IF x < 0 THEN -x ELSE x

\* line 132, the tolerance included
WithinTolerance_inclusive(diff_value) == abs(diff_value) <= TOLERANCE

\* line 132: abs(diff_value) < self.TOLERANCE
WithinTolerance(diff_value) == abs(diff_value) < TOLERANCE

Equivalence(is_equivalent, is_approximate) ==
    [is_equivalent |-> is_equivalent, is_approximate |-> is_approximate]

\* AnswerValidator._check_equivalence
_check_equivalence(cas) ==
    IF cas.difference_raises THEN Equivalence(FALSE, FALSE)
    ELSE IF cas.difference_is_zero THEN Equivalence(TRUE, FALSE)
    ELSE IF cas.free_symbols
    THEN IF cas.equals = "True" THEN Equivalence(TRUE, FALSE)
         ELSE Equivalence(FALSE, FALSE)
    ELSE IF cas.diff_value.kind = "float"
            /\ WithinTolerance(cas.diff_value.val)
    THEN Equivalence(TRUE, TRUE)
    ELSE Equivalence(FALSE, FALSE)

\* AnswerValidator._generate_explanation
_generate_explanation(is_correct, is_approximate) ==
    IF is_correct
    THEN IF is_approximate
         THEN "Approximately correct! Your answer is very close."
         ELSE "Correct! Well done."
    ELSE "Not quite. Your answer simplifies to {student_answer}, but the expected answer is {expected_answer}. Try again!"

\* the dictionaries of lines 43-48, 52-57 and 90-95: the answers as they
\* were given and no is_approximate key
Unchecked(explanation) ==
    [correct |-> FALSE, explanation |-> explanation,
     is_approximate |-> "absent", answers |-> "given", raised |-> FALSE]

\* AnswerValidator.validate_answer: sympified[1] is what sympify does with
\* the student's answer, sympified[2] what it does with the expected one
validate_answer(sympified, cas) ==
    LET student_parse  == parse_expression(sympified[1])
        expected_parse == parse_expression(sympified[2])
        failure == Unchecked("An error occurred while checking your answer.")
        checked == _check_equivalence(cas)
    IN  IF student_parse.raised \/ expected_parse.raised THEN failure
        ELSE IF ~student_parse.success
        THEN Unchecked("Could not understand your answer: {error}")
        ELSE IF ~expected_parse.success
        THEN Unchecked("There was an error checking your answer. Please try again.")
        ELSE IF cas.simplify_raises THEN failure
        ELSE [correct |-> checked.is_equivalent,
              explanation |-> _generate_explanation(checked.is_equivalent,
                                                    checked.is_approximate),
              is_approximate |-> IF checked.is_approximate THEN "True"
                                 ELSE "False",
              answers |-> "simplified", raised |-> FALSE]

(***************************************************************************)
(* Specification SpecAnswer: one call of validate_answer, for every        *)
(* behaviour of the CAS.                                                   *)
(***************************************************************************)
InitAnswer ==
    /\ a_pc = "call"
    /\ a_sympified \in SympifyOutcomes \X SympifyOutcomes
    /\ a_cas \in EquivalenceOutcomes
    /\ a_result = NoValidation
    /\ ValIdle
    /\ OrchIdle
    /\ DetIdle
    /\ EngIdle
    /\ HandlersIdle

ValidateAnswer ==
    /\ a_pc = "call"
    /\ a_result' = validate_answer(a_sympified, a_cas)
    /\ a_pc' = "returned"
    /\ UNCHANGED << a_sympified, a_cas >>
    /\ UNCHANGED << valVars, orchVars, detVars, engVars, handlerVars >>

NextAnswer == ValidateAnswer

SpecAnswer == InitAnswer /\ [][NextAnswer]_vars

(***************************************************************************)
(* Model of the answer checker (backend/app/services/answer_checker.py).   *)
(*                                                                         *)
(* A conversation history is a sequence of lines (the source joins them    *)
(* with "\n" and splits them again); the empty sequence is the empty       *)
(* string.  What the regular expressions of the source find in a line or   *)
(* in a message is tabulated below, one table per regular expression.      *)
(*                                                                         *)
(* The student's value and the solution of the equation are Python floats; *)
(* here they are integers in ten-thousandths (2.0005 is 20005).            *)
(***************************************************************************)
\* the lines a conversation history is made of in this model
HistoryLines ==
    { "Tutor: ...", "x + 3 = 5", "Student: x = 2", "2x + 3 = 7",
      "x + 3 = 5.5", "y + 3 = 5", "2x = 10", "3 + x = 7" }

Histories(n) == UNION { [1..k -> HistoryLines] : k \in 0..n }

\* line.lower(), line 44
LineLower(line) ==
    CASE line = "Tutor: ..." -> "tutor: ..."
      [] line = "Student: x = 2" -> "student: x = 2"
      [] OTHER -> line

\* lines 34-39, in the order they are tried (line 45):
\*   1  r'([a-z]\s*[+\-*/]\s*\d+\s*=\s*\d+)'
\*   2  r'(\d+\s*[+\-*/]\s*[a-z]\s*=\s*\d+)'
\*   3  r'(\d+\s*\*?\s*[a-z]\s*=\s*\d+)'
\*   4  r'([a-z]\s*=\s*\d+)'
equation_patterns == << 1, 2, 3, 4 >>

\* re.search(pattern, line_lower), lines 46-48: match.group(1).strip(), or
\* "None" when the pattern is not found in the line
search(pattern, line_lower) ==
    CASE pattern = 1 /\ line_lower = "x + 3 = 5" -> "x + 3 = 5"
      [] pattern = 1 /\ line_lower = "2x + 3 = 7" -> "x + 3 = 7"
      [] pattern = 1 /\ line_lower = "x + 3 = 5.5" -> "x + 3 = 5"
      [] pattern = 1 /\ line_lower = "y + 3 = 5" -> "y + 3 = 5"
      [] pattern = 2 /\ line_lower = "3 + x = 7" -> "3 + x = 7"
      [] pattern = 3 /\ line_lower = "2x = 10" -> "2x = 10"
      [] pattern = 4 /\ line_lower = "student: x = 2" -> "x = 2"
      [] pattern = 4 /\ line_lower = "2x = 10" -> "x = 10"
      [] pattern = 4 /\ line_lower = "3 + x = 7" -> "x = 7"
      [] OTHER -> "None"

\* a variant that skips nothing
IsAnswerStatement_never(equation) == FALSE

\* line 50: re.match(r'^[a-z]\s*=\s*-?\d+(\.\d+)?$', equation)
IsAnswerStatement(equation) == equation \in { "x = 2", "x = 10", "x = 7" }

\* lines 45-53 for one line: the patterns from the given one on
RECURSIVE MatchInLine(_, _)
MatchInLine(line_lower, p) ==
    IF p > Len(equation_patterns) THEN "None"
    ELSE LET equation == search(equation_patterns[p], line_lower)
         IN  IF equation # "None" /\ ~IsAnswerStatement(equation)
             THEN equation
             ELSE MatchInLine(line_lower, p + 1)

\* for line in reversed(lines), lines 42-55: the lines from the k-th back
RECURSIVE ScanReversed(_, _)
ScanReversed(lines, k) ==
    IF k = 0 THEN "None"
    ELSE LET equation == MatchInLine(LineLower(lines[k]), 1)
         IN  IF equation # "None" THEN equation
             ELSE ScanReversed(lines, k - 1)

\* AnswerChecker.extract_equation_from_history
extract_equation_from_history(conversation_history) ==
    IF conversation_history = << >> THEN "None"
    ELSE ScanReversed(conversation_history, Len(conversation_history))

\* the student messages of this model
StudentMessages ==
    { "x = 2", " X = 2 ", "x = 4", "y = 2", "7", "2.0005", "2.001", "-3.5",
      "x=5?", "it is 5", "what is 2x", "2x = 10", "so then 2x = 10" }

\* student_message.lower().strip(), line 66
lower_strip(student_message) ==
    CASE student_message = " X = 2 " -> "x = 2"
      [] OTHER -> student_message

NoMatch == [matched |-> FALSE, variable |-> "None", number |-> 0]

\* line 69: re.match(r'^([a-z])\s*=\s*(-?\d+(?:\.\d+)?)$', message), with
\* match.group(1) and float(match.group(2))
match_statement(message) ==
    CASE message = "x = 2" ->
           [matched |-> TRUE, variable |-> "x", number |-> 20000]
      [] message = "x = 4" ->
           [matched |-> TRUE, variable |-> "x", number |-> 40000]
      [] message = "y = 2" ->
           [matched |-> TRUE, variable |-> "y", number |-> 20000]
      [] OTHER -> NoMatch

\* line 77: re.match(r'^(-?\d+(?:\.\d+)?)$', message), with
\* float(match.group(1))
match_number(message) ==
    CASE message = "7" ->
           [matched |-> TRUE, variable |-> "None", number |-> 70000]
      [] message = "2.0005" ->
           [matched |-> TRUE, variable |-> "None", number |-> 20005]
      [] message = "2.001" ->
           [matched |-> TRUE, variable |-> "None", number |-> 20010]
      [] message = "-3.5" ->
           [matched |-> TRUE, variable |-> "None", number |-> -35000]
      [] OTHER -> NoMatch

\* AnswerChecker.parse_student_answer
parse_student_answer(student_message) ==
    LET message == lower_strip(student_message)
        match   == match_statement(message)
        number  == match_number(message)
    IN  IF match.matched
        THEN [kind |-> "dict", variable |-> match.variable,
              value |-> match.number]
        ELSE IF number.matched
        THEN [kind |-> "dict", variable |-> "x", value |-> number.number]
        ELSE NoAnswer

\* the equations extract_equation_from_history finds in the lines of this
\* model, as SymPy reads them after line 101 has written the multiplication
\* out: the symbol of the equation and its root
Equations ==
    { [equation |-> "x + 3 = 5", symbol |-> "x", root |-> 20000],
      [equation |-> "x + 3 = 7", symbol |-> "x", root |-> 40000],
      [equation |-> "y + 3 = 5", symbol |-> "y", root |-> 20000],
      [equation |-> "2x = 10", symbol |-> "x", root |-> 50000],
      [equation |-> "3 + x = 7", symbol |-> "x", root |-> 40000] }

\* solve(equation, var), line 119: the roots of the equation in the
\* variable, none when the variable does not occur in it
solve(equation_str, variable) ==
    LET read == { e \in Equations : e.equation = equation_str }
    IN  IF \E e \in read : e.symbol = variable
        THEN << (CHOOSE e \in read : TRUE).root >>
        ELSE << >>

\* AnswerChecker.solve_equation; every equation of this model holds '='
\* (line 104) and none makes SymPy raise
AnswerChecker_solve_equation(equation_str, variable) ==
    LET solutions == solve(equation_str, variable)
    IN  IF solutions = << >> THEN NoFloat
        ELSE [kind |-> "float", val |-> solutions[1]]

\* TOLERANCE = 0.001, line 14 of answer_checker.py, in ten-thousandths
AnswerChecker_TOLERANCE == 10

\* the pairs of floats whose difference is 0.001 in decimals and less than
\* 0.001 as computed: abs(2.001 - 2.0) is 0.0009999999999998899
DifferenceRoundsBelow == { << 20010, 20000 >> }

\* line 172: abs(student_value - expected_answer) < self.TOLERANCE
IsWithinTolerance(student_value, expected_answer) ==
    \/ abs(student_value - expected_answer) < AnswerChecker_TOLERANCE
    \/ << student_value, expected_answer >> \in DifferenceRoundsBelow

\* the tuple check_answer returns
CheckResult(is_correct, explanation, expected_answer) ==
    [is_correct |-> is_correct, explanation |-> explanation,
     expected_answer |-> expected_answer]

\* a variant that fails open
CouldNotParse_fail_open ==
    CheckResult(TRUE, "Could not parse student answer", NoFloat)

\* line 153
CouldNotParse == CheckResult(FALSE, "Could not parse student answer", NoFloat)

\* a variant that fails closed
FailOpen_closed(explanation) == CheckResult(FALSE, explanation, NoFloat)

\* lines 161 and 168
FailOpen(explanation) == CheckResult(TRUE, explanation, NoFloat)

\* AnswerChecker.check_answer
check_answer(student_message, conversation_history) ==
    LET student_answer  == parse_student_answer(student_message)
        equation        == extract_equation_from_history(conversation_history)
        expected_answer == AnswerChecker_solve_equation(
                               equation, student_answer.variable)
        is_correct    == IsWithinTolerance(student_answer.value,
                                             expected_answer.val)
    IN  IF student_answer.kind = "None" THEN CouldNotParse
        ELSE IF equation = "None"
        THEN FailOpen("No equation found to validate against")
        ELSE IF expected_answer.kind = "None"
        THEN FailOpen("Could not solve equation")
        ELSE CheckResult(is_correct,
                         IF is_correct
                         THEN "Correct! {variable} = {expected_answer}"
                         ELSE "Incorrect. Expected {variable} = {expected_answer}, got {student_value}",
                         expected_answer)

(***************************************************************************)
(* Specification SpecChecker: one call of a method of AnswerChecker, for   *)
(* every student message and every history of at most MaxLines lines.      *)
(***************************************************************************)
InitChecker ==
    /\ c_pc = "call"
    /\ c_message \in StudentMessages
    /\ c_history \in Histories(MaxLines)
    /\ c_equation = "None" /\ c_answer = NoAnswer /\ c_check = NoCheck
    /\ ValIdle
    /\ OrchIdle
    /\ DetIdle /\ EngIdle /\ AnsIdle
    /\ FlowIdle /\ SendIdle

ExtractEquationFromHistory ==
    /\ c_pc = "call"
    /\ c_equation' = extract_equation_from_history(c_history)
    /\ c_pc' = "extracted"
    /\ UNCHANGED << c_message, c_history, c_answer, c_check >>
    /\ UNCHANGED << valVars, orchVars, detVars, engVars, ansVars,
                    flowVars, sendVars >>

ParseStudentAnswer ==
    /\ c_pc = "call"
    /\ c_answer' = parse_student_answer(c_message)
    /\ c_pc' = "parsed"
    /\ UNCHANGED << c_message, c_history, c_equation, c_check >>
    /\ UNCHANGED << valVars, orchVars, detVars, engVars, ansVars,
                    flowVars, sendVars >>

CheckAnswer ==
    /\ c_pc = "call"
    /\ c_check' = check_answer(c_message, c_history)
    /\ c_pc' = "checked"
    /\ UNCHANGED << c_message, c_history, c_equation, c_answer >>
    /\ UNCHANGED << valVars, orchVars, detVars, engVars, ansVars,
                    flowVars, sendVars >>

NextChecker == ExtractEquationFromHistory \/ ParseStudentAnswer \/ CheckAnswer

SpecChecker == InitChecker /\ [][NextChecker]_vars

(***************************************************************************)
(* Model of SocraticGuard.detect_final_answer (socratic_guard.py, lines    *)
(* 485-520) and of the step of handle_message_send that uses it            *)
(* (routes/socket_events.py, lines 306-351).                               *)
(*                                                                         *)
(* The math context is the dictionary the handler builds from the          *)
(* detector and the CAS, or None; the expressions it holds are an input of *)
(* the model.                                                              *)
(***************************************************************************)
\* line 498
question_indicators ==
    << "what", "how", "why", "when", "where", "which", "who", "?" >>

\* indicator in message_lower, line 499: the indicators that occur in the
\* messages of this model
IndicatorOccurrences ==
    { << "x=5?", "?" >>, << "what is 2x", "what" >> }

\* a variant that looks for the words only
HasQuestionIndicator_words_only(message_lower) ==
    \E i \in DOMAIN question_indicators :
        /\ question_indicators[i] # "?"
        /\ << message_lower, question_indicators[i] >> \in IndicatorOccurrences

\* any(indicator in message_lower for indicator in question_indicators)
HasQuestionIndicator(message_lower) ==
    \E i \in DOMAIN question_indicators :
        << message_lower, question_indicators[i] >> \in IndicatorOccurrences

\* line 504: re.match(r'^[a-z]\s*=\s*-?\d+(\.\d+)?$', message_lower)
IsVariableAssignment(message_lower) ==
    message_lower \in { "x = 2", "x = 4", "y = 2" }

\* line 508: re.match(r'^-?\d+(\.\d+)?$', message_lower)
IsBareNumber(message_lower) ==
    message_lower \in { "7", "2.0005", "2.001", "-3.5" }

\* the texts of the expressions of a math context
Originals == { "X = 5", "2x + 3 = 7 + 10", "2x + 3" }

\* expr.get('original', '').lower(), line 515
OriginalLower(text) ==
    CASE text = "X = 5" -> "x = 5"
      [] OTHER -> text

\* '=' in original, line 517
HasEquals(original) == original \in { "x = 5", "2x + 3 = 7 + 10" }

\* the entries of math_context['expressions'] the step reads
Expressions ==
    [original : Originals, type : { "equation", "expression" }]

MathContexts(n) ==
    { NoContext } \cup
    [kind : { "dict" }, detected : BOOLEAN,
     expressions : UNION { [1..k -> Expressions] : k \in 0..n }]

\* a short message or expression has fewer than 15 characters, lines 513
\* and 517
SHORT == 15

\* lines 514-518: an expression of type equation whose text, lowercased,
\* holds '=' and is short
IsShortEquation(expr) ==
    /\ expr.type = "equation"
    /\ HasEquals(OriginalLower(expr.original))
    /\ Len(OriginalLower(expr.original)) < SHORT

\* SocraticGuard.detect_final_answer
detect_final_answer(student_message, math_context) ==
    LET message_lower == lower_strip(student_message)
    IN  IF HasQuestionIndicator(message_lower) THEN FALSE
        ELSE IF IsVariableAssignment(message_lower) THEN TRUE
        ELSE IF IsBareNumber(message_lower) THEN TRUE
        ELSE /\ Len(message_lower) < SHORT
             /\ math_context.kind # "None"
             /\ math_context.detected
             /\ \E i \in DOMAIN math_context.expressions :
                    IsShortEquation(math_context.expressions[i])

\* lines 306-351 of socket_events.py: what the handler decides about a
\* message, and the streak it leaves
FinalAnswerStep(content, math_context, conversation_history, streak) ==
    LET final   == detect_final_answer(content, math_context)
        checked == IF final THEN check_answer(content, conversation_history)
                   ELSE NoCheck
        correct == final /\ checked.is_correct
        count   == IF ~final THEN streak
                   ELSE IF correct THEN streak + 1
                   ELSE 0
    IN  [final |-> final, correct |-> correct,
         explanation |-> checked.explanation,
         passed |-> IF ~final THEN "None"
                    ELSE IF correct THEN "True" ELSE "False",
         streak |-> count,
         celebration |-> correct /\ count > 0 /\ count % 3 = 0]

(***************************************************************************)
(* Specification SpecFlow: the final-answer step of handle_message_send,   *)
(* for every message, math context, history of at most MaxFlowLines lines  *)
(* and stored streak of at most MaxStreak.                                 *)
(***************************************************************************)
InitFlow ==
    /\ f_pc = "received"
    /\ f_content \in StudentMessages
    /\ f_math_context \in MathContexts(MaxExpressions)
    /\ f_history \in Histories(MaxFlowLines)
    /\ f_streak \in 0..MaxStreak
    /\ f_final = FALSE /\ f_correct = FALSE /\ f_explanation = "None"
    /\ f_passed = "None" /\ f_celebration = FALSE
    /\ ValIdle
    /\ OrchIdle
    /\ DetIdle /\ EngIdle /\ AnsIdle
    /\ ChkIdle /\ SendIdle

HandleFinalAnswer ==
    LET step == FinalAnswerStep(f_content, f_math_context, f_history,
                                f_streak)
    IN  /\ f_pc = "received"
        /\ f_pc' = "handled"
        /\ f_final' = step.final
        /\ f_correct' = step.correct
        /\ f_explanation' = step.explanation
        /\ f_passed' = step.passed
        /\ f_streak' = step.streak
        /\ f_celebration' = step.celebration
        /\ UNCHANGED << f_content, f_math_context, f_history >>
        /\ UNCHANGED << valVars, orchVars, detVars, engVars, ansVars,
                        chkVars, sendVars >>

NextFlow == HandleFinalAnswer

SpecFlow == InitFlow /\ [][NextFlow]_vars

(***************************************************************************)
(* Model of the handler of message:send (routes/socket_events.py, lines    *)
(* 90-393) as far as it stores and acknowledges messages.                  *)
(*                                                                         *)
(* The server runs the handlers of concurrent events as green threads      *)
(* (async_mode='eventlet'); they interleave at the calls to the database   *)
(* when the database driver is cooperative, as do the handlers of several  *)
(* server processes.  A step of the model is the code of one handler       *)
(* between two such calls.                                                 *)
(* Each handler has its own database session: what it adds becomes visible *)
(* to the others when it commits, and the commit raises when a row with    *)
(* the same primary key (Message.id, Conversation.id) is already           *)
(* committed.  The events all carry the same conversation_id.              *)
(***************************************************************************)
\* data.get('message_id'), line 102: a message id, nothing, or a string
\* that is not a UUID
SentIds == MessageIds \cup { "missing", "not-a-uuid" }

\* emit(event, ...) by the handler s
Emit(s, event) == [s_emitted EXCEPT ![s] = Append(@, event)]

\* lines 99-123: the event arrives and its fields are validated
Receive(s, message_id) ==
    /\ s_pc[s] = "idle"
    /\ s_message_id' = [s_message_id EXCEPT ![s] = message_id]
    /\ IF message_id \in MessageIds
       THEN /\ s_pc' = [s_pc EXCEPT ![s] = "validated"]
            /\ UNCHANGED s_emitted
       ELSE /\ s_pc' = [s_pc EXCEPT ![s] = "rejected"]
            /\ s_emitted' = Emit(s, "message:error")
    /\ UNCHANGED << s_is_new_conversation, db_conversation, db_messages,
                    db_tutor >>
    /\ UNCHANGED << valVars, orchVars, detVars, engVars, ansVars, chkVars,
                    flowVars >>

\* line 126: db.session.query(Message).filter_by(id=msg_uuid).first()
IsStored(message_id) == db_messages[message_id] > 0

\* lines 125-134: the check for a duplicate message_id
CheckDuplicate(s) ==
    /\ s_pc[s] = "validated"
    /\ IF IsStored(s_message_id[s])
       THEN /\ s_pc' = [s_pc EXCEPT ![s] = "duplicate"]
            /\ s_emitted' = Emit(s, "message:ack")
       ELSE /\ s_pc' = [s_pc EXCEPT ![s] = "checked"]
            /\ UNCHANGED s_emitted
    /\ UNCHANGED << s_message_id, s_is_new_conversation, db_conversation,
                    db_messages, db_tutor >>
    /\ UNCHANGED << valVars, orchVars, detVars, engVars, ansVars, chkVars,
                    flowVars >>

\* lines 136-158: get or create the conversation, add the student message
GetConversation(s) ==
    /\ s_pc[s] = "checked"
    /\ s_is_new_conversation' =
           [s_is_new_conversation EXCEPT ![s] = ~db_conversation]
    /\ s_pc' = [s_pc EXCEPT ![s] = "added"]
    /\ UNCHANGED << s_message_id, s_emitted, db_conversation, db_messages,
                    db_tutor >>
    /\ UNCHANGED << valVars, orchVars, detVars, engVars, ansVars, chkVars,
                    flowVars >>

\* the commit of line 169 violates a primary key
IntegrityError(s) ==
    \/ db_messages[s_message_id[s]] > 0
    \/ s_is_new_conversation[s] /\ db_conversation

\* lines 160-177, and lines 387-393 when the commit raises
Commit(s) ==
    /\ s_pc[s] = "added"
    /\ IF IntegrityError(s)
       THEN /\ s_pc' = [s_pc EXCEPT ![s] = "conflict"]
            /\ s_emitted' = Emit(s, "message:error")
            /\ UNCHANGED << db_conversation, db_messages >>
       ELSE /\ s_pc' = [s_pc EXCEPT ![s] = "saved"]
            /\ db_messages' = [db_messages EXCEPT ![s_message_id[s]] = @ + 1]
            /\ db_conversation' = TRUE
            /\ s_emitted' = Emit(s, "message:ack")
    /\ UNCHANGED << s_message_id, s_is_new_conversation, db_tutor >>
    /\ UNCHANGED << valVars, orchVars, detVars, engVars, ansVars, chkVars,
                    flowVars >>

\* lines 179-385: the tutor response is generated and committed, or an
\* exception reaches lines 387-393
Respond(s, raises) ==
    /\ s_pc[s] = "saved"
    /\ IF raises
       THEN /\ s_pc' = [s_pc EXCEPT ![s] = "failed"]
            /\ s_emitted' = Emit(s, "message:error")
            /\ UNCHANGED db_tutor
       ELSE /\ s_pc' = [s_pc EXCEPT ![s] = "responded"]
            /\ db_tutor' = [db_tutor EXCEPT ![s_message_id[s]] = @ + 1]
            /\ UNCHANGED s_emitted
    /\ UNCHANGED << s_message_id, s_is_new_conversation, db_conversation,
                    db_messages >>
    /\ UNCHANGED << valVars, orchVars, detVars, engVars, ansVars, chkVars,
                    flowVars >>

(***************************************************************************)
(* Specification SpecSend: MaxSends message:send events, handled in any    *)
(* interleaving.                                                           *)
(***************************************************************************)
InitSend ==
    /\ SendIdle
    /\ ValIdle
    /\ OrchIdle
    /\ DetIdle /\ EngIdle /\ AnsIdle
    /\ ChkIdle /\ FlowIdle

NextSend ==
    \/ \E s \in Sends, message_id \in SentIds : Receive(s, message_id)
    \/ \E s \in Sends : CheckDuplicate(s)
    \/ \E s \in Sends : GetConversation(s)
    \/ \E s \in Sends : Commit(s)
    \/ \E s \in Sends, raises \in BOOLEAN : Respond(s, raises)

SpecSend == InitSend /\ [][NextSend]_vars

(***************************************************************************)
(* Properties of generate_validated_response (specification Spec).         *)
(***************************************************************************)
FallbackPool == Range(FALLBACK_QUESTIONS)

Returned == pc = "done"

AllRejected ==
    /\ Len(val_log) = max_retries
    /\ \A i \in DOMAIN val_log : ~val_log[i].is_valid

\* C1: when is_correct_answer is None and each of the max_retries generated
\* responses is rejected by the validator, the call returns
\* validation_passed = False, attempts = max_retries, confidence = 1.0 and a
\* response that is one of FALLBACK_QUESTIONS.
C1_AllRejectedReturnsFallback ==
    (Returned /\ is_correct_answer = "None" /\ AllRejected)
        => /\ result.validation_passed = FALSE
           /\ result.attempts = max_retries
           /\ result.confidence = 1000
           /\ result.response \in FallbackPool

C1_Witness ==
    /\ Returned /\ is_correct_answer = "None" /\ AllRejected
    /\ max_retries = 3
    /\ result.response = FALLBACK_QUESTIONS[2]

\* C2: once the generation capability has failed during attempt k, no
\* generation call for a later attempt is made, and the call returns a
\* fallback question.
C2_NoRetryAfterGenerationFailure ==
    \A k \in DOMAIN gen_log :
        gen_log[k].failed
            => /\ Len(gen_log) = k
               /\ Returned => result.response \in FallbackPool

\* C3 as stated: every returned response that came from the generation
\* capability was submitted to validate_response and accepted by it.
C3_EveryGeneratedResponseValidated ==
    (Returned /\ result_source = "llm")
        => /\ val_log # << >>
           /\ submitted = result.response
           /\ val_log[Len(val_log)].is_valid

\* C3 as amended: when is_correct_answer is None, every returned response
\* that came from the generation capability was submitted to
\* validate_response and accepted by it (with is_correct_answer set, the one
\* generated response is returned without validation).
C3_GeneratedResponseValidatedUnlessSkipped ==
    (Returned /\ result_source = "llm" /\ is_correct_answer = "None")
        => /\ val_log # << >>
           /\ submitted = result.response
           /\ val_log[Len(val_log)].is_valid
           /\ val_log[Len(val_log)].attempt = result.attempts

C3_Witness ==
    /\ Returned /\ result_source = "llm" /\ is_correct_answer = "None"
    /\ result.attempts = 2
    /\ result.response = << "What operation comes next?" >>

\* C4: when is_correct_answer is not None, exactly one generation call is
\* made (attempt 1), validate_response is never called, and the call returns
\* validation_passed = True, attempts = 1, is_final_answer = True.
C4_FinalAnswerSkipsValidation ==
    (is_correct_answer # "None")
        => /\ val_log = << >>
           /\ Len(gen_log) <= 1
           /\ Returned => /\ Len(gen_log) = 1
                          /\ gen_log[1].attempt = 1
                          /\ result.validation_passed = TRUE
                          /\ result.attempts = 1
                          /\ result.is_final_answer = TRUE

C4_Witness ==
    /\ Returned /\ is_correct_answer = "False"
    /\ result_source = "llm"
    /\ result.response = << "The answer is 5." >>

\* C5: when the call returns validation_passed = True with attempts = k on
\* the validated path, attempts 1..k were generated in increasing order,
\* attempts 1..k-1 were rejected and attempt k was accepted, no generation or
\* validation call was made after attempt k, and the returned response and
\* confidence are those of attempt k.
C5_FirstPassShortCircuits ==
    (Returned /\ is_correct_answer = "None" /\ result.validation_passed)
        => LET k == result.attempts
           IN  /\ k \in 1..max_retries
               /\ Len(gen_log) = k /\ Len(val_log) = k
               /\ \A i \in 1..k : /\ gen_log[i].attempt = i
                                  /\ val_log[i].attempt = i
                                  /\ val_log[i].is_valid <=> (i = k)
               /\ result.response = submitted
               /\ result.response = response
               /\ result.confidence = verdict.confidence
               /\ result.reason = verdict.reason

C5_Witness ==
    /\ Returned /\ is_correct_answer = "None" /\ result.validation_passed
    /\ result.attempts = 3
    /\ result.confidence = 500

\* the number of steps the call can still take before it returns
Remaining ==
    CASE pc = "start" -> 2 * max_retries + 3
      [] pc = "skip" -> 1
      [] pc = "generate" -> 2 * (max_retries + 1 - attempt) + 1
      [] pc = "validate" -> 2 * (max_retries + 1 - attempt)
      [] OTHER -> 0

\* C6: for every max_retries >= 1 and every behaviour of the generation
\* capability and of the judge, the call returns (accepted or fallback), no
\* exception leaves it, and it makes at most max_retries generation calls
\* and at most max_retries validation calls.  Termination: until the call
\* has returned it is at a position whose step is possible (Begin at start,
\* GenerateOnce at skip, Generate or Fallback at generate, Validate at
\* validate), and every step lowers Remaining, which is never negative.
C6_TerminatesWithoutError ==
    /\ [](/\ pc # "raised"
          /\ Len(gen_log) <= max_retries
          /\ Len(val_log) <= max_retries
          /\ Returned => (result.validation_passed \/ result_source = "fallback")
          /\ ~Returned => pc \in { "start", "skip", "generate", "validate" }
          /\ Remaining >= 0)
    /\ [][Remaining' < Remaining]_vars

C6_Witness ==
    /\ Returned
    /\ max_retries >= 2
    /\ Len(val_log) = max_retries
    /\ \E i \in DOMAIN gen_log : gen_log[i].failed
    /\ result.validation_passed

(***************************************************************************)
(* Properties of validate_response (specification SpecValidate).           *)
(***************************************************************************)
ValReturned == v_pc = "returned"

RuleVerdict == _rule_based_validation(v_response)

SecondOpinion == _llm_validation(v_judge)

\* the second opinion was asked and answered with a verdict
SecondOpinionAnswered ==
    /\ v_verdict.llm_called
    /\ ~SecondOpinion.raised
    /\ SecondOpinion.confidence.kind = "num"

HasDirectAnswerPattern(text) ==
    \E i \in DOMAIN DIRECT_ANSWER_PATTERNS :
        re_search(DIRECT_ANSWER_PATTERNS[i], lower(text))

HasAcknowledgment(text) ==
    \E i \in DOMAIN ACKNOWLEDGMENT_PHRASES :
        re_search(ACKNOWLEDGMENT_PHRASES[i], lower(text))

\* C7: a response that matches a direct-answer pattern is rejected with
\* confidence 0.9, with or without an acknowledgment phrase and whatever the
\* judge answers.
C7_DirectAnswerPatternRejected ==
    (ValReturned /\ HasDirectAnswerPattern(v_response))
        => /\ v_verdict.is_valid = FALSE
           /\ v_verdict.confidence = 900

C7_Witness ==
    /\ ValReturned
    /\ v_response = << "Exactly!", "The answer is 5." >>
    /\ HasAcknowledgment(v_response)
    /\ v_use_llm
    /\ v_judge.kind = "json" /\ v_judge.is_direct_answer = "false"
    /\ v_judge.confidence = [kind |-> "num", val |-> 1000]
    /\ ~v_verdict.is_valid

\* C8: when the second-opinion call fails or returns text that is not valid
\* JSON, validate_response returns exactly the verdict of the rule stage:
\* the same is_valid, reason and confidence.
C8_JudgeFailureKeepsRuleVerdict ==
    (ValReturned /\ v_verdict.llm_called
       /\ v_judge.kind \in { "error", "malformed", "notobject" })
        => /\ ~v_verdict.raised
           /\ v_verdict.is_valid = RuleVerdict.is_valid
           /\ v_verdict.reason = RuleVerdict.reason
           /\ v_verdict.confidence = RuleVerdict.confidence

C8_Witness ==
    /\ ValReturned /\ v_verdict.llm_called
    /\ v_judge.kind = "malformed"
    /\ ~RuleVerdict.is_valid
    /\ ~v_verdict.is_valid /\ v_verdict.confidence = 800

\* C9 as stated: when the second opinion runs and both stages reject, at any
\* confidences, the response is rejected with the average of the two
\* confidences.
C9_BothRejectAveraged ==
    (ValReturned /\ SecondOpinionAnswered
       /\ ~RuleVerdict.is_valid /\ ~SecondOpinion.is_valid)
        => /\ v_verdict.is_valid = FALSE
           /\ v_verdict.confidence =
                 (RuleVerdict.confidence + SecondOpinion.confidence.val) \div 2

\* C9 as amended: when the second opinion runs and both stages reject, the
\* response is rejected; the confidence is the average of the two
\* confidences when the second opinion's confidence is at most 0.7, and the
\* second opinion's own confidence when it is above 0.7.
C9_BothRejectAveragedUnlessJudgeConfident ==
    (ValReturned /\ SecondOpinionAnswered
       /\ ~RuleVerdict.is_valid /\ ~SecondOpinion.is_valid)
        => /\ v_verdict.is_valid = FALSE
           /\ v_verdict.confidence =
                 IF SecondOpinion.confidence.val > 700
                 THEN SecondOpinion.confidence.val
                 ELSE (RuleVerdict.confidence + SecondOpinion.confidence.val) \div 2

C9_Witness ==
    /\ ValReturned /\ SecondOpinionAnswered
    /\ RuleVerdict.is_valid = FALSE /\ RuleVerdict.confidence = 800
    /\ SecondOpinion.is_valid = FALSE /\ SecondOpinion.confidence.val = 300
    /\ v_verdict.confidence = 550

\* C10: when either the rule stage or the second opinion classifies the
\* response as a direct answer with confidence above 0.7, the response is
\* rejected; in particular for a keyword rejection at 0.8 and any answer of
\* the judge.
C10_ConfidentRejectionWins ==
    (ValReturned
       /\ \/ ~RuleVerdict.is_valid /\ RuleVerdict.confidence > 700
          \/ /\ SecondOpinionAnswered
             /\ ~SecondOpinion.is_valid
             /\ SecondOpinion.confidence.val > 700)
        => v_verdict.is_valid = FALSE

(***************************************************************************)
(* Properties of the rule stage (specification SpecValidate, calls with    *)
(* use_llm = False, which return the verdict of the rule stage).           *)
(***************************************************************************)
RuleStageReturned == ValReturned /\ ~v_use_llm

HasGivingAnswerPattern(text) ==
    \E i \in DOMAIN GIVING_ANSWER_PATTERNS :
        re_search(GIVING_ANSWER_PATTERNS[i], lower(text))

KeywordCount(text) ==
    Cardinality({ i \in DOMAIN DIRECT_ANSWER_KEYWORDS :
                    contains(DIRECT_ANSWER_KEYWORDS[i], lower(text)) })

\* C11: the rule stage rejects exactly when the response matches a
\* direct-answer pattern (0.9), or has no acknowledgment and matches a
\* giving-the-answer pattern (0.9), or has an acknowledgment and at least 5
\* keywords (0.7), or has no acknowledgment and at least 3 keywords (0.8),
\* the confidence being that of the first of these that applies.  An
\* acknowledging response is never rejected for a giving-the-answer pattern,
\* and a non-acknowledging response with exactly 2 keywords that no pattern
\* rejects is accepted at 0.5.
C11_RuleStageRejections ==
    RuleStageReturned =>
        LET ack == HasAcknowledgment(v_response)
            direct == HasDirectAnswerPattern(v_response)
            giving == HasGivingAnswerPattern(v_response)
            n == KeywordCount(v_response)
        IN  /\ ~v_verdict.is_valid
                <=> \/ direct
                    \/ ~ack /\ giving
                    \/ ack /\ n >= 5
                    \/ ~ack /\ n >= 3
            /\ ~v_verdict.is_valid
                => v_verdict.confidence =
                      IF direct \/ (~ack /\ giving) THEN 900
                      ELSE IF ack THEN 700 ELSE 800
            /\ (ack /\ giving /\ ~direct /\ n < 5) => v_verdict.is_valid
            /\ (~ack /\ n = 2 /\ ~direct /\ ~giving)
                => v_verdict.is_valid /\ v_verdict.confidence = 500

C11_Witness ==
    /\ RuleStageReturned
    /\ HasAcknowledgment(v_response)
    /\ KeywordCount(v_response) = 5
    /\ ~HasDirectAnswerPattern(v_response)
    /\ ~v_verdict.is_valid /\ v_verdict.confidence = 700

\* C12 as stated: every accept of the rule stage other than the
\* non-acknowledging two-keyword accept at 0.5 carries confidence 0.7, with
\* or without an acknowledgment phrase.
C12_EveryPlainAcceptAt07 ==
    (RuleStageReturned /\ v_verdict.is_valid)
        => \/ v_verdict.confidence = 700
           \/ /\ v_verdict.confidence = 500
              /\ ~HasAcknowledgment(v_response)
              /\ KeywordCount(v_response) = 2

\* C12 as amended: an accepted response without an acknowledgment phrase
\* carries confidence 0.7, or 0.5 when it has exactly 2 keywords; an
\* accepted response with an acknowledgment phrase carries confidence 0.8.
C12_AcceptConfidences ==
    (RuleStageReturned /\ v_verdict.is_valid)
        => v_verdict.confidence =
              IF HasAcknowledgment(v_response) THEN 800
              ELSE IF KeywordCount(v_response) = 2 THEN 500 ELSE 700

C12_Witness ==
    /\ RuleStageReturned /\ v_verdict.is_valid
    /\ HasAcknowledgment(v_response)
    /\ KeywordCount(v_response) = 2
    /\ v_verdict.confidence = 800

(***************************************************************************)
(* Properties of MathDetector.detect (specification SpecDetect).           *)
(***************************************************************************)
DetReturned == d_pc = "returned"

\* the expressions that met the threshold, before deduplication
Candidates == Scan(d_text, d_min_confidence)

Retained(c) ==
    \E i \in DOMAIN d_result.expressions : d_result.expressions[i] = c

\* the character ranges [start, end) of a and b intersect
RangesOverlap(a, b) == a.start < b.end /\ b.start < a.end

\* C13: for every input text, the matches in the result of detect have
\* pairwise non-overlapping [start, end) character ranges, and each of them
\* has start < end.
C13_MatchesDisjoint ==
    DetReturned =>
        \A i, j \in DOMAIN d_result.expressions :
            /\ d_result.expressions[i].start < d_result.expressions[i].end
            /\ i # j => ~RangesOverlap(d_result.expressions[i],
                                       d_result.expressions[j])

\* overlapping candidates were found, and two matches are returned
C13_Witness ==
    /\ DetReturned
    /\ Len(d_result.expressions) >= 2
    /\ \E i, j \in DOMAIN Candidates :
          i # j /\ RangesOverlap(Candidates[i], Candidates[j])

\* C14: deduplication is highest-confidence-wins with ties broken by the
\* earliest start: a candidate that met the threshold is missing from the
\* result only if a retained match overlaps its range and has strictly
\* higher confidence, or equal confidence and a start that is not later;
\* the retained matches are returned in ascending order of start.
C14_HighestConfidenceWins ==
    DetReturned =>
        /\ \A k \in DOMAIN Candidates :
              ~Retained(Candidates[k]) =>
                  \E i \in DOMAIN d_result.expressions :
                      LET r == d_result.expressions[i]
                          c == Candidates[k]
                      IN  /\ RangesOverlap(r, c)
                          /\ \/ r.confidence > c.confidence
                             \/ r.confidence = c.confidence
                                /\ r.start <= c.start
        /\ \A i, j \in DOMAIN d_result.expressions :
              i < j => d_result.expressions[i].start
                          < d_result.expressions[j].start

\* a candidate lost to a match of higher confidence that starts later, and
\* another lost a tie
C14_Witness ==
    /\ DetReturned
    /\ \E k \in DOMAIN Candidates : \E i \in DOMAIN d_result.expressions :
          /\ ~Retained(Candidates[k])
          /\ RangesOverlap(d_result.expressions[i], Candidates[k])
          /\ d_result.expressions[i].confidence > Candidates[k].confidence
          /\ d_result.expressions[i].start > Candidates[k].start
    /\ \E k \in DOMAIN Candidates : \E i \in DOMAIN d_result.expressions :
          /\ ~Retained(Candidates[k])
          /\ RangesOverlap(d_result.expressions[i], Candidates[k])
          /\ d_result.expressions[i].confidence = Candidates[k].confidence

\* C15: in every result, confidence is the maximum of the confidences of
\* the matches retained (0.0 when none is retained), although it is
\* accumulated before deduplication; and has_math is true exactly when the
\* list of matches is not empty and confidence >= min_confidence.
C15_ConfidenceIsMaxOfRetained ==
    DetReturned =>
        /\ d_result.confidence = MaxConfidence(d_result.expressions)
        /\ d_result.has_math <=>
              /\ Len(d_result.expressions) > 0
              /\ d_result.confidence >= d_min_confidence

\* deduplication has dropped candidates and math is reported
C15_Witness ==
    /\ DetReturned
    /\ d_result.has_math
    /\ Len(d_result.expressions) < Len(Candidates)
    /\ d_result.confidence > d_min_confidence

\* the nearest thousandth of a confidence
Thousandths(c) == (c + 5) \div 10

BaseOf(pattern_name) ==
    LET k == CHOOSE k \in DOMAIN PATTERNS : PATTERNS[k].name = pattern_name
    IN  Thousandths(PATTERNS[k].confidence)

\* how many times the keywords of the list occur in the text
RECURSIVE OccurrencesIn(_, _, _, _)
OccurrencesIn(keywords, text, k, i) ==
    IF k = 0 THEN 0
    ELSE IF i = 0 THEN OccurrencesIn(keywords, text, k - 1, Len(text))
    ELSE OccurrencesIn(keywords, text, k, i - 1) + CountIn(keywords[k], text[i])

Occurrences(keywords, text) ==
    OccurrencesIn(keywords, text, Len(keywords), Len(text))

\* how many keywords of the list occur in the text
Present(keywords, text) ==
    Cardinality({ k \in DOMAIN keywords : In(keywords[k], text) })

\* base + 0.05 per boost capped at 1.0, then - 0.10 per penalty floored at
\* 0.0, then - 0.2 floored at 0.0 for a short match in a long text
Adjusted(base, boosts, penalties, short) ==
    LET boosted   == Min(1000, base + 50 * boosts)
        penalized == Max(0, boosted - 100 * penalties)
    IN  IF short THEN Max(0, penalized - 200) ELSE penalized

ShortInLongText(e) == Len(e.text) < 3 /\ d_result.text_length > 50

\* C16 as stated: the boost of a match is 0.05 times the number of
\* occurrences of math keywords in the full text (a keyword occurring three
\* times contributes 0.15), capped so that the confidence does not exceed
\* 1.0, and the penalty is 0.10 times the number of occurrences of non-math
\* keywords, floored at 0.0.
C16_BoostPerOccurrence ==
    DetReturned =>
        \A i \in DOMAIN d_result.expressions :
            LET e == d_result.expressions[i]
            IN  Thousandths(e.confidence)
                    = Adjusted(BaseOf(e.pattern_name),
                               Occurrences(MATH_KEYWORDS, d_text),
                               Occurrences(NON_MATH_KEYWORDS, d_text),
                               ShortInLongText(e))

\* C16 amended: the boost of a match is 0.05 times the number of distinct
\* math keywords that occur in the full text, however often each occurs,
\* capped at 1.0, and the penalty is 0.10 times the number of distinct
\* non-math keywords that occur in it, floored at 0.0.
C16_BoostPerKeywordPresent ==
    DetReturned =>
        \A i \in DOMAIN d_result.expressions :
            LET e == d_result.expressions[i]
            IN  Thousandths(e.confidence)
                    = Adjusted(BaseOf(e.pattern_name),
                               Present(MATH_KEYWORDS, d_text),
                               Present(NON_MATH_KEYWORDS, d_text),
                               ShortInLongText(e))

\* a match below the cap in a text where a math keyword occurs twice
C16_Witness ==
    /\ DetReturned
    /\ Occurrences(MATH_KEYWORDS, d_text) > Present(MATH_KEYWORDS, d_text)
    /\ \E i \in DOMAIN d_result.expressions :
          d_result.expressions[i].confidence < 10000

\* the text without its i-th clause
WithoutClause(text, i) == Remove(text, i)

\* the i-th clause brings math keywords the rest of the text does not have
BringsMathKeyword(text, i) ==
    \E k \in DOMAIN MATH_KEYWORDS :
        /\ CountIn(MATH_KEYWORDS[k], text[i]) > 0
        /\ ~In(MATH_KEYWORDS[k], WithoutClause(text, i))

\* C17: math keywords only raise the confidence: for a fixed matched
\* expression and base confidence, the adjusted confidence for a text that
\* contains a keyword of MATH_KEYWORDS is never lower than the adjusted
\* confidence for the same text without that keyword.
C17_MathKeywordNeverLowers ==
    \A i \in DOMAIN d_text :
        (BringsMathKeyword(d_text, i) /\ ClauseMatches(d_text[i]) = << >>) =>
            \A p \in DOMAIN PATTERNS :
                LET without == WithoutClause(d_text, i)
                    matches == finditer(PATTERNS[p].name, without)
                IN  \A k \in DOMAIN matches :
                        _adjust_confidence(d_text, matches[k].text,
                                           PATTERNS[p].confidence)
                            >= _adjust_confidence(without, matches[k].text,
                                                  PATTERNS[p].confidence)

(***************************************************************************)
(* Properties of SymPyService (specification SpecEngine).                  *)
(***************************************************************************)
EngReturned == e_pc = "returned"

\* solve_equation returned what it made of the list of the CAS
SolveAnswered ==
    EngReturned /\ e_op = "solve_equation" /\ e_result.success

\* C18: solve_equation distinguishes three outcomes and never collapses
\* them: when the CAS returns no solutions the result is solvable = false
\* with the message "No solution found"; when the CAS reports the trivial
\* identity it is solvable = false with the message "Infinite solutions
\* (identity)"; otherwise it is solvable = true with the stringified roots
\* and count equal to their number.
C18_ThreeOutcomes ==
    SolveAnswered =>
        LET solutions == e_cas.solutions
        IN  /\ solutions = << >> => e_result.result = NoSolutionFound
            /\ solutions = << PyTrue >> => e_result.result = InfiniteSolutions
            /\ (solutions # << >> /\ solutions # << PyTrue >>) =>
                  /\ e_result.result.solvable
                  /\ e_result.result.solutions
                        = [i \in DOMAIN solutions |-> str(solutions[i])]
                  /\ e_result.result.count = Len(solutions)

\* C19: every operation of SymPyService returns a response for every
\* input, also when the CAS raises at any step: no exception reaches the
\* caller, and the response has either success = true and no error
\* message, or success = false, no value and an error message.
C19_NeverRaises ==
    /\ e_pc # "raised"
    /\ EngReturned =>
          /\ ~e_result.raised
          /\ e_result.success => e_result.error = "None"
          /\ ~e_result.success =>
                e_result.result = NoValue /\ e_result.error # "None"

\* the CAS raised after both sides of the equation were parsed
C19_Witness ==
    /\ EngReturned
    /\ e_op = "solve_equation"
    /\ e_has_equals
    /\ e_sympified = << "ok", "ok" >>
    /\ e_cas.raises
    /\ ~e_result.success

(***************************************************************************)
(* Properties of AnswerValidator.validate_answer (specification            *)
(* SpecAnswer).                                                            *)
(***************************************************************************)
AnsReturned == a_pc = "returned"

BothParsed == a_sympified = << "ok", "ok" >>

\* the two answers were parsed and simplified and their difference formed
Compared ==
    BothParsed /\ ~a_cas.simplify_raises /\ ~a_cas.difference_raises

\* the difference evaluates to a number of magnitude below 0.001
BelowOneThousandth ==
    /\ a_cas.diff_value.kind = "float"
    /\ a_cas.diff_value.val > -10
    /\ a_cas.diff_value.val < 10

\* C20: validate_answer applies its tests in order: exact-correct if the
\* simplified difference is the zero expression; otherwise, if the
\* difference has free variables, exact-correct when the two forms are
\* symbolically equal and incorrect when they are not, never approximate;
\* otherwise approximately-correct exactly when |difference| < 0.001.  So
\* is_approximate is true only in verdicts with correct = true whose
\* difference has no free variables and is not exactly zero, and a parse
\* failure of either side gives correct = false.
C20_EquivalenceTestsInOrder ==
    AnsReturned =>
        /\ ~BothParsed => ~a_result.correct
        /\ (Compared /\ a_cas.difference_is_zero) =>
              a_result.correct /\ a_result.is_approximate = "False"
        /\ (Compared /\ ~a_cas.difference_is_zero /\ a_cas.free_symbols) =>
              /\ a_result.correct <=> a_cas.equals = "True"
              /\ a_result.is_approximate = "False"
        /\ (Compared /\ ~a_cas.difference_is_zero /\ ~a_cas.free_symbols) =>
              /\ a_result.is_approximate = "True" <=> BelowOneThousandth
              /\ a_result.correct <=> BelowOneThousandth
        /\ a_result.is_approximate = "True" =>
              /\ a_result.correct
              /\ Compared
              /\ ~a_cas.free_symbols
              /\ ~a_cas.difference_is_zero

\* an approximately correct verdict just below the tolerance
C20_Witness ==
    /\ AnsReturned
    /\ a_result.is_approximate = "True"
    /\ a_cas.diff_value.val = 9

(***************************************************************************)
(* Properties of AnswerChecker (specification SpecChecker).                *)
(***************************************************************************)
Extracted == c_pc = "extracted"

Checked == c_pc = "checked"

\* the strings of the shape letter = signed-number among the matches
TrivialShapes == { "x = 2", "x = 10", "x = 7" }

\* the matches of the four patterns in a line that are not of that shape,
\* by pattern
NonTrivial(line, p) ==
    LET found == search(p, LineLower(line))
    IN  found # "None" /\ found \notin TrivialShapes

HoldsEquation(line) == \E p \in 1..4 : NonTrivial(line, p)

\* the first match in a line that is not of the trivial shape
FirstNonTrivial(line) ==
    LET p == CHOOSE q \in 1..4 :
                 NonTrivial(line, q) /\ \A r \in 1..(q - 1) : ~NonTrivial(line, r)
    IN  search(p, LineLower(line))

\* the most recent line of the history that holds a non-trivial match
MostRecent(history) ==
    CHOOSE k \in DOMAIN history :
        HoldsEquation(history[k])
        /\ \A j \in DOMAIN history : j > k => ~HoldsEquation(history[j])

ExampleHistory == << "Tutor: ...", "x + 3 = 5", "Student: x = 2" >>

\* C21: extract_equation_from_history never returns a string of the shape
\* letter = signed-number; when some line holds a match that is not of that
\* shape it returns the first such match of the most recent such line, so a
\* match on a more recent line wins over one on an older line; for the
\* history ["Tutor: ...", "x + 3 = 5", "Student: x = 2"] it returns
\* "x + 3 = 5"; it returns None when the history is empty or no line holds
\* such a match.
C21_ExtractsMostRecentNonTrivial ==
    Extracted =>
        /\ c_equation \notin TrivialShapes
        /\ (\E k \in DOMAIN c_history : HoldsEquation(c_history[k]))
               => c_equation = FirstNonTrivial(c_history[MostRecent(c_history)])
        /\ (\A k \in DOMAIN c_history : ~HoldsEquation(c_history[k]))
               => c_equation = "None"
        /\ c_history = ExampleHistory => c_equation = "x + 3 = 5"

C21_Witness ==
    /\ Extracted
    /\ c_history = ExampleHistory
    /\ c_equation = "x + 3 = 5"

Parsable == parse_student_answer(c_message).kind # "None"

NoEquationFound == extract_equation_from_history(c_history) = "None"

NotSolvable ==
    /\ ~NoEquationFound
    /\ AnswerChecker_solve_equation(
           extract_equation_from_history(c_history),
           parse_student_answer(c_message).variable).kind = "None"

\* C22: for a parsable student answer, check_answer returns is_correct =
\* True and expected_answer = None with the explanation "No equation found
\* to validate against" when no equation is extracted from the history, and
\* with the different explanation "Could not solve equation" when the
\* extracted equation is not solved.
C22_FailsOpen ==
    (Checked /\ Parsable) =>
        /\ NoEquationFound
               => c_check = CheckResult(TRUE,
                      "No equation found to validate against", NoFloat)
        /\ NotSolvable
               => c_check = CheckResult(TRUE, "Could not solve equation",
                                        NoFloat)

C22_Witness ==
    /\ Checked /\ Parsable /\ NotSolvable
    /\ c_check.is_correct
    /\ c_check.explanation = "Could not solve equation"

\* the equation written on a line, and its root in ten-thousandths
Written ==
    { [line |-> "x + 3 = 5", equation |-> "x + 3 = 5", root |-> 20000],
      [line |-> "2x + 3 = 7", equation |-> "2x + 3 = 7", root |-> 20000],
      [line |-> "x + 3 = 5.5", equation |-> "x + 3 = 5.5", root |-> 25000],
      [line |-> "y + 3 = 5", equation |-> "y + 3 = 5", root |-> 20000],
      [line |-> "2x = 10", equation |-> "2x = 10", root |-> 50000],
      [line |-> "3 + x = 7", equation |-> "3 + x = 7", root |-> 40000] }

WrittenOn(line) == CHOOSE w \in Written : w.line = line

\* the history holds an equation to solve
HasEquation == \E k \in DOMAIN c_history : HoldsEquation(c_history[k])

\* the root of the most recent equation of the history
Solution == WrittenOn(c_history[MostRecent(c_history)]).root

\* C23: when the history holds a solvable equation in one variable,
\* check_answer never returns is_correct = True for a student value that
\* differs from the solution of that equation by 0.001 or more, whichever
\* variable letter the message names.
C23_NeverCorrectBeyondTolerance ==
    (Checked /\ Parsable /\ HasEquation /\ c_check.is_correct)
        => abs(parse_student_answer(c_message).value - Solution)
               < AnswerChecker_TOLERANCE

\* C28: a student message that parse_student_answer rejects yields
\* is_correct = False with expected_answer = None, whatever the history
\* holds: the fail-open results are never returned for it.
C28_UnparsableIsNotCorrect ==
    (Checked /\ ~Parsable) =>
        /\ c_check.is_correct = FALSE
        /\ c_check.expected_answer = NoFloat
        /\ c_check.explanation = "Could not parse student answer"

C28_Witness ==
    /\ Checked
    /\ c_message = "it is 5"
    /\ c_history = << >>
    /\ c_check.is_correct = FALSE

\* C30: the equation extract_equation_from_history returns is the whole
\* equation written on a line of the history, never a fragment of it.
C30_ReturnsWholeEquation ==
    (Extracted /\ c_equation # "None")
        => \E k \in DOMAIN c_history :
               /\ HoldsEquation(c_history[k])
               /\ c_equation = WrittenOn(c_history[k]).equation

(***************************************************************************)
(* Properties of detect_final_answer and of the final-answer step          *)
(* (specification SpecFlow).                                               *)
(***************************************************************************)
Handled == f_pc = "handled"

\* the messages that contain what, how, why, when, where, which, who or '?'
Questions == { "x=5?", "what is 2x" }

\* the messages that, trimmed and lowercased, are exactly
\* letter = signed-number or a signed number
ExactAnswers ==
    { "x = 2", " X = 2 ", "x = 4", "y = 2", "7", "2.0005", "2.001", "-3.5" }

\* the math context holds a short equation
HoldsShortEquation(math_context) ==
    /\ math_context.kind = "dict"
    /\ math_context.detected
    /\ \E i \in DOMAIN math_context.expressions :
           /\ math_context.expressions[i].type = "equation"
           /\ math_context.expressions[i].original = "X = 5"

\* C24: detect_final_answer returns False for every message that contains a
\* question indicator, also when the message is short and the math context
\* holds a short equation, and True for every message without indicators
\* that, trimmed and lowercased, is exactly letter = signed-number or a
\* signed number.
C24_QuestionsAreNotFinalAnswers ==
    Handled =>
        /\ f_content \in Questions => ~f_final
        /\ f_content \in (ExactAnswers \ Questions) => f_final

C24_Witness ==
    /\ Handled
    /\ f_content = "x=5?"
    /\ HoldsShortEquation(f_math_context)
    /\ ~f_final

\* C29: every message detect_final_answer accepts is parsable by
\* parse_student_answer, so the step never judges a detected final answer
\* incorrect because it could not be parsed.
C29_FinalAnswersAreParsable ==
    (Handled /\ f_final) =>
        /\ f_content \in ExactAnswers
        /\ f_explanation # "Could not parse student answer"

(***************************************************************************)
(* Properties of the handler of message:send (specification SpecSend).     *)
(***************************************************************************)
\* the handler s has committed the student message of its event
Stored(s) == s_pc[s] \in { "saved", "responded", "failed" }

\* the handler s has returned
Finished(s) ==
    s_pc[s] \in { "rejected", "duplicate", "conflict", "responded", "failed" }

\* the event of s carries the message id of a message another handler
\* has stored
Duplicate(s) ==
    /\ s_message_id[s] \in MessageIds
    /\ ~Stored(s)
    /\ \E t \in Sends \ { s } :
           s_message_id[t] = s_message_id[s] /\ Stored(t)

\* C25: a message:send whose message_id is stored by another event is
\* answered with message:ack and never with message:error, no message id
\* has two student messages and none has two tutor responses, in every
\* interleaving of the handlers.
C25_DuplicateIsAcknowledged ==
    /\ \A s \in Sends :
           (Finished(s) /\ Duplicate(s))
               => s_emitted[s] = << "message:ack" >>
    /\ \A m \in MessageIds : db_messages[m] <= 1 /\ db_tutor[m] <= 1

(***************************************************************************)
(* Further properties of validate_response (specification SpecValidate).   *)
(***************************************************************************)
\* C26: with use_llm true, validate_response makes the second-opinion call
\* (the one completion call of _llm_validation) when the rule stage accepts
\* or rejects with confidence at most 0.8, and makes no second-opinion call
\* when the rule stage rejects with confidence above 0.8.
C26_SecondOpinionCalledUnlessConfident ==
    (ValReturned /\ v_use_llm) =>
        /\ (RuleVerdict.is_valid \/ RuleVerdict.confidence <= 800)
               => v_verdict.llm_called
        /\ (~RuleVerdict.is_valid /\ RuleVerdict.confidence > 800)
               => ~v_verdict.llm_called

C26_Witness ==
    /\ ValReturned /\ v_use_llm
    /\ ~RuleVerdict.is_valid
    /\ RuleVerdict.confidence = 800
    /\ v_verdict.llm_called

\* C27: the confidence of the verdict validate_response returns lies in
\* [0, 1], for every tutor response and every output of the judge.
C27_ConfidenceInUnitInterval ==
    ValReturned => (v_verdict.confidence >= 0 /\ v_verdict.confidence <= 1000)

====
